---- MODULE Spec2Model ----
(***************************************************************************)
(* A model of the opd-ai/paywall payment reconciliation engine: the        *)
(* payment stores (memory, file, encrypted file), the HD wallets, the      *)
(* Paywall ledger (CreatePayment) and the CryptoChainMonitor polling loop. *)
(***************************************************************************)
EXTENDS Integers, Sequences, FiniteSets, TLC

(***************************************************************************)
(* Bounds of the model.                                                    *)
(***************************************************************************)
\* number of distinct payment ids the store-level scenarios use
MaxStored == 4

\* number of CreatePayment attempts (each draws a fresh random payment id)
MaxCreate == 3

\* number of concurrent callers of CreatePayment
NumCallers == 2

\* number of goroutines calling DeriveNextAddress on one wallet
NumDerivers == 2

\* number of DeriveNextAddress calls in the wallet scenario
MaxDerive == 3

\* highest confirmation count a CryptoClient reports
MaxConf == 2

\* number of ticker periods after which the model's clock saturates
MaxTicks == 2

\* payments created while the monitor runs
MaxMonitored == 1

\* pending payments in the store when the polling scenario begins
MaxBatch == 2

\* number of distinct payment ids the store calls are made with
MaxKeys == 2

\* number of payment files in the store's directory
MaxFiles == 1

\* number of distinct nonces encrypt can draw
MaxNonces == 2

\* goroutines calling UpdatePayment at the same time
NumUpdaters == 2

\* clock units that can pass between two clock reads of one call
MaxDrift == 1

(***************************************************************************)
(* Types (types.go, wallet/hd_wallet.go).                                  *)
(***************************************************************************)
StatusPending == "pending"

StatusConfirmed == "confirmed"

StatusExpired == "expired"

Bitcoin == "BTC"

Monero == "XMR"

Currencies == {Bitcoin, Monero}

\* the store implementations: MemoryStore, FileStore (two revisions of
\* filestore.go are in the repository) and EncryptedFileStore
Backends == {"memory", "file", "file015", "encfile"}

NoPayment == [id |-> 0]

\* the empty string
NoTx == ""

\* a Payment value (type Payment)
Payment(id, addrs, amts, created, expires, status, confs, tx) ==
    [id |-> id, addresses |-> addrs, amounts |-> amts, createdAt |-> created,
     expiresAt |-> expires, status |-> status, confirmations |-> confs,
     transactionID |-> tx]

VARIABLES
    backend,            \* which PaymentStore implementation Config.Store is
    minConfirmations,   \* Paywall.minConfirmations
    store,              \* the store's records: payment id -> Payment or NoPayment
    ret,                \* the value returned by the last store call
    enabled,            \* the keys of Paywall.HDWallets
    zeroKeyAt,          \* the BTC address index whose child key is invalid, or NoIndex
    client,             \* which CryptoClient answers the monitor's queries
    balanceCalls,       \* GetAddressBalance calls the scripted client has answered
    nextIndex,          \* nextIndex of each wallet
    xmrSubaddresses,    \* subaddresses the Monero wallet RPC server has created
    mu,                 \* holder of each wallet's mutex (0: free)
    wpc,                \* wallet scenario: each goroutine's position
    widx,               \* wallet scenario: the index its path was built with
    derived,            \* wallet scenario: results returned so far, in order
    nextId,             \* number of payment ids drawn so far, plus one
    cpc,                \* each CreatePayment caller's position
    cpay,               \* the payment record the caller is assembling
    ctodo,              \* the wallets the caller's range loop has not visited
    cbase,              \* history: the indices as they would be without this attempt
    cres,               \* the result of the caller's last CreatePayment
    now,                \* the clock, in seconds
    untilTick,          \* ticker: seconds until it next fires
    interval,           \* ticker: its period
    tickPending,        \* ticker.C holds a tick
    cancelled,          \* ctx.Done() is closed
    monPc,              \* position of the monitor goroutine
    batch,              \* the payments the current cycle still has to check
    bstep,              \* the check that is next for the head of batch
    cycleErr,           \* history: the current cycle logged an error
    cycleLog,           \* history: outcomes of the last cycles
    listed,             \* history: ids ListPendingPayments gave the current cycle
    checks,             \* history: the checks the current cycle has made, in order
    files,              \* the store's directory: what each payment file holds
    smu,                \* the store's RWMutex: 0, or the goroutine writing
    upc,                \* goroutines calling UpdatePayment: position, argument
    b58,                \* a Base58 computation: its input and what came of it
    resp,               \* the middleware's answer to the last request
    funds               \* the chains: what each payment's address has received

configVars == <<backend, minConfirmations, enabled, zeroKeyAt, client>>

storeVars == <<store, ret>>

walletVars == <<nextIndex, xmrSubaddresses, mu>>

deriverVars == <<wpc, widx, derived>>

callerVars == <<nextId, cpc, cpay, ctodo, cbase, cres>>

timeVars == <<now, untilTick, interval, tickPending>>

monVars == <<cancelled, monPc, batch, bstep, cycleErr, cycleLog, listed,
            checks, balanceCalls>>

diskVars == <<files, smu, upc>>

edgeVars == <<b58, resp, funds>>

vars == <<configVars, storeVars, walletVars, deriverVars, callerVars, timeVars,
          monVars, diskVars, edgeVars>>

(***************************************************************************)
(* PaymentStore implementations.                                           *)
(***************************************************************************)
StoredIds == 1..MaxStored

Stored(st) == {st[i] : i \in {j \in DOMAIN st : st[j] # NoPayment}}

\* MemoryStore.ListPendingPayments: p.Confirmations < 1
MemoryStoreListPendingPayments(st) ==
    {p \in Stored(st) : p.confirmations < 1}

\* FileStore.ListPendingPayments: payment.Confirmations <= 1
FileStoreListPendingPayments(st) ==
    {p \in Stored(st) : p.confirmations <= 1}

\* a mutant of FileStore015ListPendingPayments: the boundary moved by one
FileStore015ListPendingPayments_AtLeastOne(st) ==
    {p \in Stored(st) : p.confirmations >= 1}

\* FileStore.ListPendingPayments of the earlier filestore.go:
\* payment.Confirmations > 1
FileStore015ListPendingPayments(st) ==
    {p \in Stored(st) : p.confirmations > 1}

\* EncryptedFileStore.ListPendingPayments: payment.Confirmations < 1
EncryptedFileStoreListPendingPayments(st) ==
    {p \in Stored(st) : p.confirmations < 1}

\* PaymentStore.ListPendingPayments dispatched on the configured store
ListPendingPayments(b, st) ==
    CASE b = "memory" -> MemoryStoreListPendingPayments(st)
      [] b = "file" -> FileStoreListPendingPayments(st)
      [] b = "file015" -> FileStore015ListPendingPayments(st)
      [] b = "encfile" -> EncryptedFileStoreListPendingPayments(st)

\* CreatePayment of every store once its write succeeded: the record is put
\* under p.ID (m.payments[p.ID] = p; os.WriteFile of <p.ID>.json), whether or
\* not a record was there
StorePayment(b, st, p) == [st EXCEPT ![p.id] = p]

\* a mutant of UpdatePayment: a record equal to the one written is dropped
UpdatePayment_DropEqual(b, st, p) ==
    [st EXCEPT ![p.id] = IF @ = p THEN NoPayment ELSE p]

\* UpdatePayment of every store once its write succeeded: the same write as
\* CreatePayment's
UpdatePayment(b, st, p) == [st EXCEPT ![p.id] = p]

\* the file-backed stores return the error of os.WriteFile / os.ReadDir;
\* MemoryStore always returns nil
CanFail(b) == b # "memory"

(***************************************************************************)
(* The file-backed stores at the level of what a payment file holds:       *)
(* json.Marshal / json.Unmarshal of a Payment, and AES-GCM around it in    *)
(* the encrypted store.  An encoded Payment is the JSON object's members.  *)
(***************************************************************************)
\* no file under the id (no key in MemoryStore's map)
Absent == [absent |-> TRUE]

NoFile == [bytes |-> Absent, written |-> Absent]

\* json.Marshal(p): one member per field, named by its json tag;
\* transaction_id is tagged omitempty and is left out when it is empty.
\* time.Time is written as RFC 3339 with nanoseconds, which keeps the instant
\* (an integer here)
MarshalPayment(p) ==
    LET always == [id |-> p.id, addresses |-> p.addresses,
                   amounts |-> p.amounts, created_at |-> p.createdAt,
                   expires_at |-> p.expiresAt, status |-> p.status,
                   confirmations |-> p.confirmations]
    IN  IF p.transactionID = NoTx THEN always
        ELSE always @@ [transaction_id |-> p.transactionID]

\* the members json.Marshal always writes
RequiredMembers ==
    {"id", "addresses", "amounts", "created_at", "expires_at", "status",
     "confirmations"}

\* a file that holds a whole JSON object (a write cut short leaves less)
WholeObject(j) == RequiredMembers \subseteq DOMAIN j

\* a mutant of UnmarshalPayment: the transaction id is not read back
UnmarshalPayment_NoTransactionID(j) ==
    Payment(j.id, j.addresses, j.amounts, j.created_at, j.expires_at,
            j.status, j.confirmations, NoTx)

\* json.Unmarshal(data, &payment): every member is read into its field; a
\* member that is absent leaves the field at its zero value
UnmarshalPayment(j) ==
    Payment(j.id, j.addresses, j.amounts, j.created_at, j.expires_at,
            j.status, j.confirmations,
            IF "transaction_id" \in DOMAIN j THEN j.transaction_id ELSE NoTx)

\* the nonces rand.Reader gives encrypt
NonceValues == 1..MaxNonces

\* the tag gcm.Seal appends: it authenticates the nonce and the text under
\* the store's key; the MAC is kept abstract: distinct inputs give distinct
\* tags, and only the holder of the key can compute them
GCMTag(nonce, data) == <<nonce, data>>

\* encrypt with the nonce drawn: gcm.Seal(nonce, nonce, data, nil), that is
\* nonce || ciphertext || tag.  Counter mode keeps the text's length and
\* lets a change of the ciphertext change the text bit by bit, so the
\* ciphertext is modelled by the text it decrypts to
encrypt(nonce, data) ==
    [nonce |-> nonce, ciphertext |-> data, tag |-> GCMTag(nonce, data)]

\* a file cut to fewer bytes than a nonce
ShortFile == [short |-> TRUE]

\* a mutant of decrypt: the tag is not verified
decrypt_Unverified(data) ==
    IF data = ShortFile THEN [err |-> TRUE, data |-> ShortFile]
    ELSE [err |-> FALSE, data |-> data.ciphertext]

\* decrypt: "ciphertext too short" below the nonce size, else gcm.Open, which
\* fails unless the tag fits the nonce and the ciphertext
decrypt(data) ==
    IF data = ShortFile THEN [err |-> TRUE, data |-> ShortFile]
    ELSE IF data.tag = GCMTag(data.nonce, data.ciphertext)
         THEN [err |-> FALSE, data |-> data.ciphertext]
         ELSE [err |-> TRUE, data |-> ShortFile]

\* what CreatePayment / UpdatePayment of store b put under p.ID: MemoryStore
\* the pointer it was given, FileStore the JSON text, EncryptedFileStore the
\* sealed JSON text
Encode(b, p, nonce) ==
    CASE b = "memory" -> p
      [] b = "file" -> MarshalPayment(p)
      [] b = "encfile" -> encrypt(nonce, MarshalPayment(p))

\* what the stores read back from what is under an id: [err, payment]
ReadRecord(b, bytes) ==
    CASE b = "memory" -> [err |-> FALSE, payment |-> bytes]
      [] b = "file" ->
           IF WholeObject(bytes)
           THEN [err |-> FALSE, payment |-> UnmarshalPayment(bytes)]
           ELSE [err |-> TRUE, payment |-> NoPayment]
      [] b = "encfile" ->
           LET d == decrypt(bytes) IN
             IF ~d.err /\ WholeObject(d.data)
             THEN [err |-> FALSE, payment |-> UnmarshalPayment(d.data)]
             ELSE [err |-> TRUE, payment |-> NoPayment]

\* GetPayment of store b: (nil, nil) when nothing is under the id
GetPayment(b, fs, id) ==
    IF fs[id] = NoFile THEN [err |-> FALSE, payment |-> NoPayment]
    ELSE ReadRecord(b, fs[id].bytes)

\* the records the loop of ListPendingPayments gets to see: a file that
\* cannot be read, decrypted or parsed is skipped (continue)
Readable(b, fs) ==
    [i \in DOMAIN fs |->
        IF fs[i] = NoFile \/ ReadRecord(b, fs[i].bytes).err THEN NoPayment
        ELSE ReadRecord(b, fs[i].bytes).payment]

(***************************************************************************)
(* HD wallets (wallet/btc_hd_wallet.go, wallet/xmr_hd_wallet.go).          *)
(***************************************************************************)
\* no index of the modelled range has an invalid child key
NoIndex == -1

\* the address pubKeyToAddress gives for the key at path m/44'/0'/0'/0/i;
\* the hash chain is kept abstract: distinct paths give distinct addresses
BTCAddressAt(i) == <<Bitcoin, i>>

\* the address of the n-th subaddress the wallet RPC server creates
XMRSubaddress(n) == <<Monero, n>>

\* deriveKey returns "invalid child key" when the child key is zero
DeriveKeyFails(i) == i = zeroKeyAt

\* a mutant of IncrementIndex: the index is not advanced
IncrementIndex_Stuck(i) == i

\* w.nextIndex++ (a uint32: it wraps only after 2^32 derivations, beyond the
\* bounds of the model)
IncrementIndex(i) == i + 1

\* a mutant of BalanceCallLocks: the call holds the wallet's mutex
BalanceCallLocks_WalletMutex(c) == TRUE

\* whether GetAddressBalance of wallet c, the monitor's CryptoClient, takes
\* w.mu: neither wallet's does
BalanceCallLocks(c) == FALSE

\* the monitor is in a call to wallet c that holds w.mu
HeldByMonitor(c) == monPc = "cycle" /\ bstep = c /\ BalanceCallLocks(c)

\* a mutant of MutexFree: DeriveNextAddress does not take the lock
MutexFree_NoLock(c) == TRUE

\* w.mu.Lock() can proceed
MutexFree(c) == mu[c] = 0 /\ ~HeldByMonitor(c)

\* what DeriveNextAddress of wallet c returns when its path was built with
\* index i; rpcOk: the create_address RPC of the Monero wallet succeeded
DeriveResult(c, i, rpcOk) ==
    IF c = Bitcoin
    THEN IF DeriveKeyFails(i)
         THEN [err |-> TRUE, address |-> ""]
         ELSE [err |-> FALSE, address |-> BTCAddressAt(i)]
    ELSE IF rpcOk
         THEN [err |-> FALSE, address |-> XMRSubaddress(xmrSubaddresses)]
         ELSE [err |-> TRUE, address |-> ""]

\* a mutant of WalletAfter: the index advances on an error too
WalletAfter_AdvanceOnError(c, r) ==
    /\ nextIndex' = [nextIndex EXCEPT ![c] = IncrementIndex(@)]
    /\ xmrSubaddresses' = IF ~r.err /\ c = Monero THEN xmrSubaddresses + 1
                          ELSE xmrSubaddresses

\* the wallet's state after DeriveNextAddress returned r
WalletAfter(c, r) ==
    /\ nextIndex' = IF r.err THEN nextIndex
                    ELSE [nextIndex EXCEPT ![c] = IncrementIndex(@)]
    /\ xmrSubaddresses' = IF ~r.err /\ c = Monero THEN xmrSubaddresses + 1
                          ELSE xmrSubaddresses

\* NewBTCHDWallet, NewMoneroWallet: nextIndex 0
WalletInit ==
    /\ nextIndex = [c \in Currencies |-> 0]
    /\ xmrSubaddresses = 0
    /\ mu = [c \in Currencies |-> 0]

(***************************************************************************)
(* Initial state of the ledger's callers, the clock and the monitor.       *)
(***************************************************************************)
Callers == 1..NumCallers

\* no CreatePayment call is in progress
CallersIdle ==
    /\ nextId = 1
    /\ cpc = [k \in Callers |-> "idle"]
    /\ cpay = [k \in Callers |-> NoPayment]
    /\ ctodo = [k \in Callers |-> {}]
    /\ cbase = [k \in Callers |-> [c \in Currencies |-> 0]]
    /\ cres = [k \in Callers |-> [kind |-> "none"]]

\* time.NewTicker(10 * time.Second)
TickerInterval == 10

ClockInit ==
    /\ now = 0
    /\ untilTick = TickerInterval
    /\ interval = TickerInterval
    /\ tickPending = FALSE

\* the monitor goroutine started by NewPaywall waits in its select
MonitorInit ==
    /\ cancelled = FALSE
    /\ monPc = "select"
    /\ batch = <<>>
    /\ bstep = Bitcoin
    /\ cycleErr = FALSE
    /\ cycleLog = <<>>
    /\ listed = {}
    /\ checks = <<>>
    /\ balanceCalls = 0

FileIds == 1..MaxFiles

Updaters == 1..NumUpdaters

\* an empty directory, the store's lock free, no UpdatePayment in progress
DiskIdle ==
    /\ files = [i \in FileIds |-> NoFile]
    /\ smu = 0
    /\ upc = [u \in Updaters |-> [pc |-> "idle"]]

\* nothing was paid to any address
NoFunds == [c \in Currencies |-> [i \in StoredIds |-> 0]]

\* no Base58 computation, no request answered, no funds received
EdgeIdle ==
    /\ b58 = [stage |-> "none"]
    /\ resp = [kind |-> "none"]
    /\ funds = NoFunds

(***************************************************************************)
(* Wallet scenario: goroutines calling DeriveNextAddress on one wallet.    *)
(***************************************************************************)
Derivers == 1..NumDerivers

DeriversIdle ==
    /\ wpc = [d \in Derivers |-> "idle"]
    /\ widx = [d \in Derivers |-> 0]
    /\ derived = <<>>

\* calls begun so far
DeriveCalls == Len(derived) + Cardinality({d \in Derivers : wpc[d] = "locked"})

\* DeriveNextAddress up to the derivation: the lock is taken and the path is
\* built with w.nextIndex
DeriveLock(d, c) ==
    /\ c \in enabled
    /\ wpc[d] = "idle"
    /\ DeriveCalls < MaxDerive
    /\ MutexFree(c)
    /\ mu' = [mu EXCEPT ![c] = d]
    /\ wpc' = [wpc EXCEPT ![d] = "locked"]
    /\ widx' = [widx EXCEPT ![d] = nextIndex[c]]
    /\ UNCHANGED <<configVars, edgeVars, diskVars, storeVars, nextIndex, xmrSubaddresses, derived,
                   callerVars, timeVars, monVars>>

\* DeriveNextAddress from the derivation to its return: on success the index
\* is incremented; the deferred Unlock releases the lock
DeriveReturn(d, c) ==
    /\ c \in enabled
    /\ wpc[d] = "locked"
    /\ \E rpcOk \in BOOLEAN :
         LET r == DeriveResult(c, widx[d], rpcOk) IN
           /\ WalletAfter(c, r)
           /\ derived' = Append(derived, [by |-> d, err |-> r.err,
                                          address |-> r.address])
    /\ mu' = [mu EXCEPT ![c] = 0]
    /\ wpc' = [wpc EXCEPT ![d] = "idle"]
    /\ UNCHANGED <<configVars, edgeVars, diskVars, storeVars, widx, callerVars, timeVars, monVars>>

WalletScenarioInit ==
    /\ backend = "memory"
    /\ minConfirmations = 1
    /\ store = [i \in StoredIds |-> NoPayment]
    /\ ret = [kind |-> "none"]
    /\ enabled \in {{Bitcoin}, {Monero}}
    /\ zeroKeyAt \in {NoIndex} \cup (0..MaxDerive)
    /\ client = "any"
    /\ WalletInit
    /\ DeriversIdle
    /\ CallersIdle
    /\ ClockInit
    /\ MonitorInit
    /\ DiskIdle
    /\ EdgeIdle

WalletNext ==
    \/ \E d \in Derivers, c \in Currencies : DeriveLock(d, c)
    \/ \E d \in Derivers, c \in Currencies : DeriveReturn(d, c)

WalletSpec == WalletScenarioInit /\ [][WalletNext]_vars

\* GetAddress of either wallet: it calls DeriveNextAddress and wraps its
\* error.  Up to the derivation: the lock is taken, the path is built
GetAddressLock(d, c) ==
    /\ c \in enabled
    /\ wpc[d] = "idle"
    /\ Len(derived) + Cardinality({e \in Derivers : wpc[e] # "idle"}) < MaxDerive
    /\ MutexFree(c)
    /\ mu' = [mu EXCEPT ![c] = d]
    /\ wpc' = [wpc EXCEPT ![d] = "getAddress"]
    /\ widx' = [widx EXCEPT ![d] = nextIndex[c]]
    /\ UNCHANGED <<configVars, edgeVars, diskVars, storeVars, nextIndex, xmrSubaddresses,
                   derived, callerVars, timeVars, monVars>>

\* GetAddress from the derivation to its return
GetAddressReturn(d, c) ==
    /\ c \in enabled
    /\ wpc[d] = "getAddress"
    /\ \E rpcOk \in BOOLEAN :
         LET r == DeriveResult(c, widx[d], rpcOk) IN
           /\ WalletAfter(c, r)
           /\ derived' = Append(derived, [by |-> d, err |-> r.err,
                                          address |-> r.address])
    /\ mu' = [mu EXCEPT ![c] = 0]
    /\ wpc' = [wpc EXCEPT ![d] = "idle"]
    /\ UNCHANGED <<configVars, edgeVars, diskVars, storeVars, widx, callerVars, timeVars,
                   monVars>>

\* goroutines calling GetAddress and DeriveNextAddress on one wallet
AddressNext ==
    \/ \E d \in Derivers, c \in Currencies : GetAddressLock(d, c)
    \/ \E d \in Derivers, c \in Currencies : GetAddressReturn(d, c)
    \/ \E d \in Derivers, c \in Currencies : DeriveLock(d, c)
    \/ \E d \in Derivers, c \in Currencies : DeriveReturn(d, c)

AddressSpec == WalletScenarioInit /\ [][AddressNext]_vars

(***************************************************************************)
(* Paywall.CreatePayment (the ledger).  Each DeriveNextAddress call and    *)
(* the store call are atomic under their locks; callers interleave between *)
(* them.                                                                   *)
(***************************************************************************)
\* Paywall.prices, in units of the smallest payable amount
prices == [c \in Currencies |-> IF c = Bitcoin THEN 1 ELSE 2]

\* Paywall.paymentTimeout
paymentTimeout == TickerInterval

PaymentIds == 1..MaxCreate

NoResult == [kind |-> "none"]

\* the caller's locals once CreatePayment has returned
Returned(k, result) ==
    /\ cpc' = [cpc EXCEPT ![k] = "idle"]
    /\ cpay' = [cpay EXCEPT ![k] = NoPayment]
    /\ ctodo' = [ctodo EXCEPT ![k] = {}]
    /\ cres' = [cres EXCEPT ![k] = result]

\* CreatePayment up to the range loop: the id is drawn (128 random bits,
\* modelled as an id no earlier attempt drew) and the record is built.
\* The record reads the clock twice: CreatedAt: time.Now() gave t1 and
\* ExpiresAt: time.Now().Add(p.paymentTimeout) read t2
CreateBeginCall(k, t1, t2) ==
    /\ cpc[k] = "idle"
    /\ nextId <= MaxCreate
    /\ nextId' = nextId + 1
    /\ cpc' = [cpc EXCEPT ![k] = "range"]
    /\ cpay' = [cpay EXCEPT ![k] =
                  Payment(nextId, <<>>, <<>>, t1, t2 + paymentTimeout,
                          StatusPending, 0, NoTx)]
    /\ ctodo' = [ctodo EXCEPT ![k] = enabled]
    /\ cbase' = [cbase EXCEPT ![k] = nextIndex]
    /\ cres' = [cres EXCEPT ![k] = NoResult]

\* a call of CreatePayment that is not made by the middleware
CreateBeginAt(k, t1, t2) ==
    /\ CreateBeginCall(k, t1, t2)
    /\ UNCHANGED <<configVars, edgeVars, diskVars, storeVars, walletVars, deriverVars, timeVars,
                   monVars>>

\* CreatePayment's first steps when the clock does not move between its two
\* reads
CreateBegin(k) == CreateBeginAt(k, now, now)

\* what the second time.Now() of a call can read when the first read t: the
\* clock may have moved on by then
SecondRead(t) == t..(t + MaxDrift)

\* CreatePayment's first steps on a running clock
CreateBeginClocked(k) == \E t2 \in SecondRead(now) : CreateBeginAt(k, now, t2)

\* a mutant of AddCurrency: the amount is not recorded
AddCurrency_AddressOnly(p, c, address) ==
    [p EXCEPT !.addresses = @ @@ (c :> address)]

\* payment.Addresses[walletType] = address;
\* payment.Amounts[walletType] = p.prices[walletType]
AddCurrency(p, c, address) ==
    [p EXCEPT !.addresses = @ @@ (c :> address),
              !.amounts = @ @@ (c :> prices[c])]

\* one iteration of "for walletType, hdWallet := range p.HDWallets": the
\* wallet's DeriveNextAddress; on its error CreatePayment returns the error
CreateDerive(k) ==
    /\ cpc[k] = "range"
    /\ \E c \in ctodo[k], rpcOk \in BOOLEAN :
         /\ MutexFree(c)
         /\ LET r == DeriveResult(c, nextIndex[c], rpcOk) IN
              /\ WalletAfter(c, r)
              /\ IF r.err
                 THEN /\ Returned(k, [kind |-> "derive_error", stored |-> FALSE,
                                      before |-> cbase[k], after |-> nextIndex'])
                      /\ cbase' = [cbase EXCEPT ![k] = [x \in Currencies |-> 0]]
                 ELSE /\ cpay' = [cpay EXCEPT ![k] = AddCurrency(@, c, r.address)]
                      /\ ctodo' = [ctodo EXCEPT ![k] = @ \ {c}]
                      /\ cbase' = [j \in Callers |->
                            IF j # k /\ cpc[j] # "idle"
                            THEN [cbase[j] EXCEPT ![c] = @ + 1]
                            ELSE cbase[j]]
                      /\ UNCHANGED <<cpc, cres>>
    /\ UNCHANGED <<configVars, edgeVars, diskVars, storeVars, mu, deriverVars, nextId, timeVars,
                   monVars>>

\* a mutant of NoWallets: the check is missing
NoWallets_Unchecked(p) == FALSE

\* len(payment.Addresses) == 0
NoWallets(p) == DOMAIN p.addresses = {}

\* after the loop: the "no wallets enabled" check, then Store.CreatePayment;
\* on its error CreatePayment returns the error
CreateStore(k) ==
    /\ cpc[k] = "range"
    /\ ctodo[k] = {}
    /\ IF NoWallets(cpay[k])
       THEN /\ Returned(k, [kind |-> "no_wallets", stored |-> FALSE,
                            before |-> cbase[k], after |-> nextIndex])
            /\ store' = store
       ELSE \E ok \in (IF CanFail(backend) THEN BOOLEAN ELSE {TRUE}) :
              IF ok
              THEN /\ store' = StorePayment(backend, store, cpay[k])
                   /\ Returned(k, [kind |-> "ok", stored |-> TRUE,
                                   payment |-> cpay[k],
                                   before |-> cbase[k], after |-> nextIndex])
              ELSE /\ store' = store
                   /\ Returned(k, [kind |-> "store_error", stored |-> TRUE,
                                   before |-> cbase[k], after |-> nextIndex])
    /\ cbase' = [cbase EXCEPT ![k] = [x \in Currencies |-> 0]]
    /\ UNCHANGED <<configVars, edgeVars, diskVars, ret, walletVars, deriverVars, nextId, timeVars,
                   monVars>>

\* a caller of the exported Store records the transaction that pays a stored
\* payment (GetPayment, set TransactionID, UpdatePayment)
AssociateTransaction(id) ==
    /\ store[id] # NoPayment
    /\ store[id].transactionID = NoTx
    /\ store' = UpdatePayment(backend, store,
                              [store[id] EXCEPT !.transactionID = "tx"])
    /\ UNCHANGED <<configVars, edgeVars, diskVars, ret, walletVars, deriverVars, callerVars,
                   timeVars, monVars>>

(***************************************************************************)
(* The clock and the monitor's ticker.                                     *)
(***************************************************************************)
Min(a, b) == IF a <= b THEN a ELSE b

Max(a, b) == IF a >= b THEN a ELSE b

\* the clock saturates here; the ticker keeps firing
MaxTime == MaxTicks * TickerInterval

\* one ticker period of time passes, unless the ticker is due to fire first
Advance ==
    /\ untilTick > 0 \/ monPc = "stopped"
    /\ now' = Min(now + TickerInterval, MaxTime)
    /\ untilTick' = Max(untilTick - TickerInterval, 0)
    /\ UNCHANGED <<configVars, edgeVars, diskVars, storeVars, walletVars, deriverVars, callerVars,
                   interval, tickPending, monVars>>

\* the ticker fires: a tick is put in ticker.C (capacity 1, a tick that finds
\* it full is dropped) and the next one is due a period later
TimerFire ==
    /\ untilTick = 0
    /\ monPc # "stopped"
    /\ tickPending' = TRUE
    /\ untilTick' = interval
    /\ UNCHANGED <<configVars, edgeVars, diskVars, storeVars, walletVars, deriverVars, callerVars,
                   now, interval, monVars>>

(***************************************************************************)
(* CryptoChainMonitor (verification.go).                                   *)
(***************************************************************************)
\* the confirmation counts and balances a CryptoClient may report
ConfRange == 0..MaxConf

Balances(c) == {0, prices[c]}

\* monitor.client, as NewPaywall fills it: the enabled wallets
clients == enabled

\* a mutant of IntervalAfter: the period doubles after a failed cycle and is
\* never set back
IntervalAfter_NoReset(iv, failed) == IF failed THEN 2 * TickerInterval ELSE iv

\* the ticker's period after a cycle: Start creates the ticker once and the
\* loop never resets it
IntervalAfter(iv, failed) == iv

\* a mutant of ConfirmationsSuffice: any confirmation is taken as enough
ConfirmationsSuffice_Any(conf) == conf > 0

\* confirmations >= m.paywall.minConfirmations
ConfirmationsSuffice(conf) == conf >= minConfirmations

\* payment.Amounts[c], payment.Addresses[c]: a missing key reads as zero
AmountOf(p, c) == IF c \in DOMAIN p.amounts THEN p.amounts[c] ELSE 0

\* every order in which a set of payments can be listed
RECURSIVE Orders(_)
Orders(S) ==
    IF S = {} THEN {<<>>}
    ELSE UNION {{<<p>> \o rest : rest \in Orders(S \ {p})} : p \in S}

\* the Payment a listed pointer refers to: MemoryStore hands out pointers to
\* its own records, the file stores hand out copies
Obj(p) == IF backend = "memory" THEN store[p.id] ELSE p

\* the history kept of a finished cycle: whether it failed, and the ticker
\* period after it
LogCycle(failed) ==
    LET e == [failed |-> failed, delay |-> IntervalAfter(interval, failed)]
    IN  /\ cycleLog' = IF Len(cycleLog) < 2 THEN Append(cycleLog, e)
                       ELSE <<cycleLog[2], e>>
        /\ interval' = e.delay

\* Paywall.Close: p.cancel()
Close ==
    /\ ~cancelled
    /\ cancelled' = TRUE
    /\ UNCHANGED <<configVars, edgeVars, diskVars, storeVars, walletVars, deriverVars, callerVars,
                   timeVars, monPc, batch, bstep, cycleErr, cycleLog, listed,
                   checks, balanceCalls>>

\* Start's select takes the ctx.Done() case: the ticker is stopped and the
\* goroutine returns
MonitorStop ==
    /\ monPc = "select"
    /\ cancelled
    /\ monPc' = "stopped"
    /\ UNCHANGED <<configVars, edgeVars, diskVars, storeVars, walletVars, deriverVars, callerVars,
                   timeVars, cancelled, batch, bstep, cycleErr, cycleLog, listed,
                   checks, balanceCalls>>

\* Start's select takes the ticker.C case (when ctx.Done() is ready too,
\* select picks either): checkPendingPayments lists the pending payments;
\* a list error ends the cycle
MonitorTick ==
    /\ monPc = "select"
    /\ tickPending
    /\ tickPending' = FALSE
    /\ \E ok \in (IF CanFail(backend) THEN BOOLEAN ELSE {TRUE}) :
         IF ~ok
         THEN /\ LogCycle(TRUE)
              /\ UNCHANGED <<monPc, batch, bstep, cycleErr, listed>>
         ELSE \E order \in Orders(ListPendingPayments(backend, store)) :
                IF order = <<>>
                THEN /\ LogCycle(FALSE)
                     /\ UNCHANGED <<monPc, batch, bstep, cycleErr, listed>>
                ELSE /\ monPc' = "cycle"
                     /\ batch' = order
                     /\ bstep' = Bitcoin
                     /\ cycleErr' = FALSE
                     /\ listed' = {order[i].id : i \in 1..Len(order)}
                     /\ UNCHANGED <<cycleLog, interval>>
    /\ UNCHANGED <<configVars, edgeVars, diskVars, storeVars, walletVars, deriverVars, callerVars,
                   now, untilTick, cancelled, checks, balanceCalls>>

\* what the CryptoClient answers to GetAddressBalance and
\* GetTransactionConfirmations: [balErr, bal, confErr, conf]
Reply(balErr, bal, confErr, conf) ==
    [balErr |-> balErr, bal |-> bal, confErr |-> confErr, conf |-> conf]

\* a client that may answer anything
AnyReplies(c) ==
    {Reply(TRUE, 0, FALSE, 0), Reply(FALSE, 0, FALSE, 0),
     Reply(FALSE, prices[c], TRUE, 0)}
      \cup {Reply(FALSE, prices[c], FALSE, n) : n \in ConfRange}

\* a client whose GetAddressBalance fails twice and from then on returns the
\* amount, and whose GetTransactionConfirmations returns MaxConf
ScriptedReply(c) ==
    IF balanceCalls < 2 THEN Reply(TRUE, 0, FALSE, 0)
    ELSE Reply(FALSE, prices[c], FALSE, MaxConf)

ClientReplies(c) ==
    IF client = "any" THEN AnyReplies(c) ELSE {ScriptedReply(c)}

\* GetAddressBalance of the wallet that is the monitor's client for c, asked
\* for the address of payment p.  BTCHDWallet asks the node what that
\* address received; MoneroHDWallet does not use its argument and asks for
\* the balance of account 0, where every subaddress it created lies
RECURSIVE Sum(_, _)
Sum(f, S) ==
    IF S = {} THEN 0
    ELSE LET i == CHOOSE j \in S : TRUE IN f[i] + Sum(f, S \ {i})

GetAddressBalance(c, p) ==
    IF c = Monero THEN Sum(funds[Monero], DOMAIN funds[Monero])
    ELSE IF c \in DOMAIN p.addresses THEN funds[c][p.id] ELSE 0

\* GetTransactionConfirmations of that wallet: BTCHDWallet's returns
\* "not implemented"; MoneroHDWallet's looks the transaction up among the
\* incoming transfers of account 0 and fails when it is not there
WalletConfirmations(c) ==
    IF c = Monero
    THEN {[confErr |-> TRUE, conf |-> 0]}
           \cup {[confErr |-> FALSE, conf |-> n] : n \in ConfRange}
    ELSE {[confErr |-> TRUE, conf |-> 0]}

\* the replies when the wallets serve as the monitor's clients, as NewPaywall
\* sets them up
WalletReplies(c, p) ==
    {Reply(TRUE, 0, FALSE, 0)}
      \cup {Reply(FALSE, GetAddressBalance(c, p), t.confErr, t.conf) :
               t \in WalletConfirmations(c)}

\* a mutant of Confirm: the monitor also gives the payment another hour
Confirm_ExtendExpiry(p, conf) ==
    [p EXCEPT !.status = StatusConfirmed, !.confirmations = conf,
              !.expiresAt = @ + paymentTimeout]

\* payment.Status = StatusConfirmed; payment.Confirmations = confirmations
Confirm(p, conf) ==
    [p EXCEPT !.status = StatusConfirmed, !.confirmations = conf]

\* a mutant of MissingTransactionID: the check is not made
MissingTransactionID_Ignored(p) == FALSE

\* payment.TransactionID == ""
MissingTransactionID(p) == p.transactionID = NoTx

\* CheckBTCPayments / CheckXMRPayments of payment p with the client's reply;
\* the result is [err, payment, updated]
CheckPayment(c, p, reply) ==
    IF c \notin clients THEN [err |-> TRUE, payment |-> p, updated |-> FALSE]
    ELSE IF reply.balErr THEN [err |-> TRUE, payment |-> p, updated |-> FALSE]
    ELSE IF reply.bal >= AmountOf(p, c)
         THEN IF MissingTransactionID(p)
              THEN [err |-> TRUE, payment |-> p, updated |-> FALSE]
              ELSE IF reply.confErr
                   THEN [err |-> TRUE, payment |-> p, updated |-> FALSE]
                   ELSE IF ConfirmationsSuffice(reply.conf)
                        THEN [err |-> FALSE, payment |-> Confirm(p, reply.conf),
                              updated |-> TRUE]
                        ELSE [err |-> FALSE, payment |-> p, updated |-> FALSE]
         ELSE [err |-> FALSE, payment |-> p, updated |-> FALSE]

\* a mutant of Remaining: an error of a check ends the loop
Remaining_AbortOnError(rest, err) == IF err THEN <<>> ELSE rest

\* what the loop of checkPendingPayments still has to do after a check that
\* returned err: the error is logged and the loop goes on
Remaining(rest, err) == rest

\* one check of the loop of checkPendingPayments: CheckBTCPayments, then
\* CheckXMRPayments, of each listed payment; errors are logged; the error of
\* Store.UpdatePayment is dropped
MonitorCheck(c) ==
    /\ monPc = "cycle"
    /\ bstep = c
    /\ \E reply \in (IF client = "wallet"
                     THEN WalletReplies(c, Obj(Head(batch)))
                     ELSE ClientReplies(c)) :
         LET p == Obj(Head(batch))
             r == CheckPayment(c, p, reply)
             failed == cycleErr \/ r.err
             rest == Remaining(IF c = Monero THEN Tail(batch)
                               ELSE <<r.payment>> \o Tail(batch), r.err)
         IN  /\ \E written \in (IF r.updated /\ CanFail(backend)
                                THEN BOOLEAN ELSE {TRUE}) :
                  store' = IF r.updated /\ written
                           THEN UpdatePayment(backend, store, r.payment)
                           ELSE store
             /\ batch' = rest
             /\ bstep' = IF c = Bitcoin THEN Monero ELSE Bitcoin
             /\ balanceCalls' = IF client = "failTwice" /\ c \in clients
                                THEN Min(balanceCalls + 1, 3)
                                ELSE balanceCalls
             /\ IF rest = <<>>
                THEN /\ monPc' = "select"
                     /\ cycleErr' = FALSE
                     /\ listed' = {}
                     /\ checks' = <<>>
                     /\ LogCycle(failed)
                ELSE /\ cycleErr' = failed
                     /\ checks' = Append(checks, [id |-> p.id, currency |-> c,
                                                  err |-> r.err])
                     /\ UNCHANGED <<monPc, cycleLog, interval, listed>>
    /\ UNCHANGED <<configVars, edgeVars, diskVars, ret, walletVars, deriverVars, callerVars, now,
                   untilTick, tickPending, cancelled>>

(***************************************************************************)
(* Concurrent callers of CreatePayment on one Paywall.                     *)
(***************************************************************************)
LedgerInit ==
    /\ backend \in Backends
    /\ minConfirmations = 1
    /\ store = [i \in PaymentIds |-> NoPayment]
    /\ ret = [kind |-> "none"]
    /\ enabled \in {{}, {Bitcoin}, {Bitcoin, Monero}}
    /\ zeroKeyAt \in {NoIndex, 1}
    /\ client = "any"
    /\ WalletInit
    /\ DeriversIdle
    /\ CallersIdle
    /\ ClockInit
    /\ MonitorInit
    /\ DiskIdle
    /\ EdgeIdle

LedgerNext ==
    \/ \E k \in Callers : CreateBegin(k)
    \/ \E k \in Callers : CreateDerive(k)
    \/ \E k \in Callers : CreateStore(k)

LedgerSpec == LedgerInit /\ [][LedgerNext]_vars

(***************************************************************************)
(* The system: the Paywall NewPaywall returns, one client of it, and the   *)
(* monitor goroutine.                                                      *)
(***************************************************************************)
Client == 1

\* the stores the system is run on: the one that hands out pointers and one
\* that hands out copies (the file stores differ only in their list filter)
SystemBackends == {"memory", "file"}

Init ==
    /\ backend \in SystemBackends
    /\ minConfirmations \in {1, 2}
    /\ store = [i \in PaymentIds |-> NoPayment]
    /\ ret = [kind |-> "none"]
    /\ enabled \in {{Bitcoin}, {Bitcoin, Monero}}
    /\ zeroKeyAt = NoIndex
    /\ client = "any"
    /\ WalletInit
    /\ DeriversIdle
    /\ CallersIdle
    /\ ClockInit
    /\ MonitorInit
    /\ DiskIdle
    /\ EdgeIdle

Next ==
    \/ (nextId <= MaxMonitored /\ CreateBegin(Client))
    \/ CreateDerive(Client)
    \/ CreateStore(Client)
    \/ \E id \in PaymentIds : AssociateTransaction(id)
    \/ Advance
    \/ TimerFire
    \/ Close
    \/ MonitorStop
    \/ MonitorTick
    \/ \E c \in Currencies : MonitorCheck(c)

Spec == Init /\ [][Next]_vars

\* the system with the scripted client and one currency
ScenarioInit ==
    /\ backend \in SystemBackends
    /\ minConfirmations \in {1, 2}
    /\ store = [i \in PaymentIds |-> NoPayment]
    /\ ret = [kind |-> "none"]
    /\ enabled = {Bitcoin}
    /\ zeroKeyAt = NoIndex
    /\ client = "failTwice"
    /\ WalletInit
    /\ DeriversIdle
    /\ CallersIdle
    /\ ClockInit
    /\ MonitorInit
    /\ DiskIdle
    /\ EdgeIdle

ScenarioSpec == ScenarioInit /\ [][Next]_vars

\* the client's CreatePayment calls on a running clock, the monitor idle
ClockedNext ==
    \/ CreateBeginClocked(Client)
    \/ CreateDerive(Client)
    \/ CreateStore(Client)
    \/ Advance

ClockedSpec == Init /\ [][ClockedNext]_vars

\* time passes, the ticker fires, and the monitor goroutine is scheduled
\* whenever it can take a step
Fairness ==
    /\ WF_vars(Advance)
    /\ WF_vars(TimerFire)
    /\ WF_vars(MonitorTick)
    /\ WF_vars(MonitorStop)
    /\ \A c \in Currencies : WF_vars(MonitorCheck(c))

FairSpec == Spec /\ Fairness

(***************************************************************************)
(* Polling scenario: the monitor of a Paywall whose store already holds    *)
(* pending payments, each as CreatePayment wrote it, some with a           *)
(* transaction recorded.                                                   *)
(***************************************************************************)
\* the payment CreatePayment number i wrote at time 0 with the wallets es
CreatedPayment(i, es, tx) ==
    Payment(i,
            [c \in es |-> IF c = Bitcoin THEN BTCAddressAt(i - 1)
                          ELSE XMRSubaddress(i - 1)],
            [c \in es |-> prices[c]],
            0, paymentTimeout, StatusPending, 0, tx)

PollInit ==
    /\ backend \in SystemBackends
    /\ minConfirmations = 1
    /\ enabled \in {{Bitcoin}, {Bitcoin, Monero}}
    /\ \E txs \in [1..MaxBatch -> {NoTx, "tx"}] :
         store = [i \in PaymentIds |->
                    IF i <= MaxBatch THEN CreatedPayment(i, enabled, txs[i])
                    ELSE NoPayment]
    /\ ret = [kind |-> "none"]
    /\ zeroKeyAt = NoIndex
    /\ client = "any"
    /\ nextIndex = [c \in Currencies |-> IF c \in enabled THEN MaxBatch ELSE 0]
    /\ xmrSubaddresses = nextIndex[Monero]
    /\ mu = [c \in Currencies |-> 0]
    /\ DeriversIdle
    /\ nextId = MaxBatch + 1
    /\ cpc = [k \in Callers |-> "idle"]
    /\ cpay = [k \in Callers |-> NoPayment]
    /\ ctodo = [k \in Callers |-> {}]
    /\ cbase = [k \in Callers |-> [c \in Currencies |-> 0]]
    /\ cres = [k \in Callers |-> NoResult]
    /\ ClockInit
    /\ MonitorInit
    /\ DiskIdle
    /\ EdgeIdle

PollNext ==
    \/ Advance
    \/ TimerFire
    \/ MonitorTick
    \/ \E c \in Currencies : MonitorCheck(c)

PollSpec == PollInit /\ [][PollNext]_vars

(***************************************************************************)
(* The monitor at work on a stored payment while a client creates more.    *)
(* The ticker has just fired.                                              *)
(***************************************************************************)
BusyInit ==
    /\ backend \in SystemBackends
    /\ minConfirmations = 1
    /\ enabled \in {{Bitcoin}, {Bitcoin, Monero}}
    /\ store = [i \in PaymentIds |->
                  IF i = 1 THEN CreatedPayment(1, enabled, "tx")
                  ELSE NoPayment]
    /\ ret = [kind |-> "none"]
    /\ zeroKeyAt = NoIndex
    /\ client = "any"
    /\ nextIndex = [c \in Currencies |-> IF c \in enabled THEN 1 ELSE 0]
    /\ xmrSubaddresses = nextIndex[Monero]
    /\ mu = [c \in Currencies |-> 0]
    /\ DeriversIdle
    /\ nextId = 2
    /\ cpc = [k \in Callers |-> "idle"]
    /\ cpay = [k \in Callers |-> NoPayment]
    /\ ctodo = [k \in Callers |-> {}]
    /\ cbase = [k \in Callers |-> [c \in Currencies |-> 0]]
    /\ cres = [k \in Callers |-> NoResult]
    /\ now = 0
    /\ untilTick = TickerInterval
    /\ interval = TickerInterval
    /\ tickPending = TRUE
    /\ MonitorInit
    /\ DiskIdle
    /\ EdgeIdle

\* the cycle of the tick that is pending, and the client's calls
BusyNext ==
    \/ (nextId <= MaxMonitored + 1 /\ CreateBegin(Client))
    \/ CreateDerive(Client)
    \/ CreateStore(Client)
    \/ MonitorTick
    \/ \E c \in Currencies : MonitorCheck(c)

\* the client's goroutine is scheduled whenever it can take a step; nothing
\* is assumed of the clock, the monitor or the CryptoClient: a call of the
\* monitor may take for ever
ClientFairness ==
    /\ WF_vars(CreateDerive(Client))
    /\ WF_vars(CreateStore(Client))

BusySpec == BusyInit /\ [][BusyNext]_vars /\ ClientFairness

(***************************************************************************)
(* Store-level scenarios: the store API called directly, as the store      *)
(* tests do, with payments of chosen confirmation counts.                  *)
(***************************************************************************)
ConfValues == {0, 1, 2, 3, 5, 6}

\* the payments the store tests create: pending below 5 confirmations,
\* confirmed from 5 on
TestPayments ==
    {Payment(i, <<>>, <<>>, 0, 0,
             IF c >= 5 THEN StatusConfirmed ELSE StatusPending, c, NoTx) :
        i \in StoredIds, c \in ConfValues}

StoreInit ==
    /\ backend \in Backends
    /\ minConfirmations = 1
    /\ store = [i \in StoredIds |-> NoPayment]
    /\ ret = [kind |-> "none"]
    /\ enabled = {Bitcoin}
    /\ zeroKeyAt = NoIndex
    /\ client = "any"
    /\ WalletInit
    /\ DeriversIdle
    /\ CallersIdle
    /\ ClockInit
    /\ MonitorInit
    /\ DiskIdle
    /\ EdgeIdle

\* CreatePayment of the configured store: the record is written under p.ID
StoreCreatePayment(p) ==
    /\ \E ok \in (IF CanFail(backend) THEN BOOLEAN ELSE {TRUE}) :
         IF ok
         THEN /\ store' = StorePayment(backend, store, p)
              /\ ret' = [kind |-> "create", err |-> FALSE]
         ELSE /\ store' = store
              /\ ret' = [kind |-> "create", err |-> TRUE]
    /\ UNCHANGED <<configVars, edgeVars, diskVars, walletVars, deriverVars, callerVars, timeVars, monVars>>

\* history: the call before this UpdatePayment(p) was a successful
\* UpdatePayment of the same payment value
Repeated(p) ==
    /\ ret.kind = "update"
    /\ ~ret.err
    /\ ret.id = p.id
    /\ store[p.id] = p

\* UpdatePayment of the configured store: the record under p.ID is replaced
StoreUpdatePayment(p) ==
    /\ \E ok \in (IF CanFail(backend) THEN BOOLEAN ELSE {TRUE}) :
         IF ok
         THEN /\ store' = UpdatePayment(backend, store, p)
              /\ ret' = [kind |-> "update", err |-> FALSE, id |-> p.id,
                         again |-> Repeated(p)]
         ELSE /\ store' = store
              /\ ret' = [kind |-> "update", err |-> TRUE, id |-> p.id,
                         again |-> FALSE]
    /\ UNCHANGED <<configVars, edgeVars, diskVars, walletVars, deriverVars, callerVars, timeVars, monVars>>

\* ListPendingPayments of the configured store
StoreListPendingPayments ==
    /\ \E ok \in (IF CanFail(backend) THEN BOOLEAN ELSE {TRUE}) :
         IF ok
         THEN ret' = [kind |-> "list", err |-> FALSE,
                      payments |-> ListPendingPayments(backend, store)]
         ELSE ret' = [kind |-> "list", err |-> TRUE, payments |-> {}]
    /\ UNCHANGED <<configVars, edgeVars, diskVars, store, walletVars, deriverVars, callerVars, timeVars, monVars>>

\* the list tests: payments are created, then listed
StoreNext ==
    \/ \E p \in TestPayments : StoreCreatePayment(p)
    \/ StoreListPendingPayments

StoreSpec == StoreInit /\ [][StoreNext]_vars

\* the payment values callers of the store API write: a record as
\* CreatePayment leaves it or as the monitor leaves it, with or without a
\* transaction recorded
OpPayments ==
    {Payment(i, <<>>, <<>>, 0, 0, st, IF st = StatusPending THEN 0 ELSE MaxConf,
             tx) :
        i \in 1..MaxKeys, st \in {StatusPending, StatusConfirmed},
        tx \in {NoTx, "tx"}}

\* any sequence of CreatePayment, UpdatePayment and ListPendingPayments calls
StoreOpsNext ==
    \/ \E p \in OpPayments : StoreCreatePayment(p)
    \/ \E p \in OpPayments : StoreUpdatePayment(p)
    \/ StoreListPendingPayments

StoreOpsSpec == StoreInit /\ [][StoreOpsNext]_vars

(***************************************************************************)
(* The store API called directly, with the directory of payment files in   *)
(* view.  For the encrypted store, somebody without the key changes files. *)
(***************************************************************************)
DiskBackends == {"memory", "file", "encfile"}

\* the payments written: as CreatePayment builds them for a Bitcoin-only
\* paywall, pending or confirmed, with or without a transaction recorded
DiskPayments ==
    {Payment(i, (Bitcoin :> BTCAddressAt(i)), (Bitcoin :> prices[Bitcoin]),
             0, paymentTimeout, st[1], st[2], tx) :
        i \in FileIds, st \in {<<StatusPending, 0>>, <<StatusConfirmed, 1>>},
        tx \in {NoTx, "tx"}}

DiskInit ==
    /\ backend \in DiskBackends
    /\ minConfirmations = 1
    /\ store = [i \in StoredIds |-> NoPayment]
    /\ ret = [kind |-> "none"]
    /\ enabled = {Bitcoin}
    /\ zeroKeyAt = NoIndex
    /\ client = "any"
    /\ WalletInit
    /\ DeriversIdle
    /\ CallersIdle
    /\ ClockInit
    /\ MonitorInit
    /\ DiskIdle
    /\ EdgeIdle

\* history kept with a file: what the store wrote last
Written(bytes) == [bytes |-> bytes, written |-> bytes]

\* the file under id is not what the store wrote
Modified(id) == files[id] # NoFile /\ files[id].bytes # files[id].written

\* CreatePayment of the configured store
DiskCreatePayment(p) ==
    /\ \E ok \in (IF CanFail(backend) THEN BOOLEAN ELSE {TRUE}),
          nonce \in NonceValues :
         IF ok
         THEN /\ files' = [files EXCEPT ![p.id] =
                              Written(Encode(backend, p, nonce))]
              /\ ret' = [kind |-> "create", err |-> FALSE, payment |-> p]
         ELSE /\ files' = files
              /\ ret' = [kind |-> "create", err |-> TRUE, payment |-> p]
    /\ UNCHANGED <<configVars, edgeVars, store, walletVars, deriverVars, callerVars,
                   timeVars, monVars, smu, upc>>

\* UpdatePayment of the configured store
DiskUpdatePayment(p) ==
    /\ \E ok \in (IF CanFail(backend) THEN BOOLEAN ELSE {TRUE}),
          nonce \in NonceValues :
         IF ok
         THEN /\ files' = [files EXCEPT ![p.id] =
                              Written(Encode(backend, p, nonce))]
              /\ ret' = [kind |-> "update", err |-> FALSE, payment |-> p]
         ELSE /\ files' = files
              /\ ret' = [kind |-> "update", err |-> TRUE, payment |-> p]
    /\ UNCHANGED <<configVars, edgeVars, store, walletVars, deriverVars, callerVars,
                   timeVars, monVars, smu, upc>>

\* GetPayment of the configured store
DiskGetPayment(id) ==
    /\ LET r == GetPayment(backend, files, id) IN
         ret' = [kind |-> "get", err |-> r.err, payment |-> r.payment,
                 id |-> id, modified |-> Modified(id)]
    /\ UNCHANGED <<configVars, edgeVars, store, walletVars, deriverVars, callerVars,
                   timeVars, monVars, diskVars>>

\* ListPendingPayments of the configured store
DiskListPendingPayments ==
    /\ \E ok \in (IF CanFail(backend) THEN BOOLEAN ELSE {TRUE}) :
         IF ok
         THEN ret' = [kind |-> "list", err |-> FALSE,
                      payments |->
                        ListPendingPayments(backend, Readable(backend, files)),
                      modified |-> {i \in FileIds : Modified(i)}]
         ELSE ret' = [kind |-> "list", err |-> TRUE, payments |-> {},
                      modified |-> {i \in FileIds : Modified(i)}]
    /\ UNCHANGED <<configVars, edgeVars, store, walletVars, deriverVars, callerVars,
                   timeVars, monVars, diskVars>>

\* the text a forger wants read: the payment as confirmed
Forge(j) ==
    IF j.status = StatusPending
    THEN [j EXCEPT !.status = StatusConfirmed, !.confirmations = 1]
    ELSE [j EXCEPT !.status = StatusPending, !.confirmations = 0]

\* what somebody who can write the directory but lacks the key can make of
\* an encrypted file: other ciphertext bits, another nonce, another tag, or
\* a cut
Tampered(f) ==
    {[f EXCEPT !.ciphertext = Forge(@)],
     [f EXCEPT !.nonce = (@ % MaxNonces) + 1],
     [f EXCEPT !.tag = GCMTag(f.nonce, Forge(f.ciphertext))],
     ShortFile}

\* a file of the encrypted store is changed behind the store's back
Tamper(id) ==
    /\ backend = "encfile"
    /\ files[id] # NoFile
    /\ ~Modified(id)
    /\ \E t \in Tampered(files[id].bytes) :
         files' = [files EXCEPT ![id].bytes = t]
    /\ UNCHANGED <<configVars, edgeVars, storeVars, walletVars, deriverVars, callerVars,
                   timeVars, monVars, smu, upc>>

DiskNext ==
    \/ \E p \in DiskPayments : DiskCreatePayment(p)
    \/ \E p \in DiskPayments : DiskUpdatePayment(p)
    \/ \E id \in FileIds : DiskGetPayment(id)
    \/ DiskListPendingPayments
    \/ \E id \in FileIds : Tamper(id)

DiskSpec == DiskInit /\ [][DiskNext]_vars

(***************************************************************************)
(* Goroutines calling UpdatePayment of one store for the same payment id.  *)
(* os.WriteFile opens the file with O_TRUNC and then writes the data at    *)
(* offset 0: two steps, both under the store's write lock.                 *)
(***************************************************************************)
UpdateBackends == {"memory", "file"}

\* the records the calls write: all of them for payment 1
UpdatePayments == {p \in DiskPayments : p.id = 1}

\* a file of length 0
EmptyFile == [absent |-> FALSE]

\* a mutant of StoreMutexFree: UpdatePayment does not take the lock
StoreMutexFree_NoLock == TRUE

\* m.mu.Lock() can proceed
StoreMutexFree == smu = 0

\* what is under the id once os.WriteFile has opened the file: the file is
\* cut to length 0; MemoryStore has no such step
Truncated(b, present) == IF b = "memory" THEN present ELSE EmptyFile

\* what is under the id once the data is written: MemoryStore's map holds
\* the pointer; a file holds the data from offset 0 and, behind the data,
\* what it held there before (the members a shorter text does not reach)
Overlay(b, data, present) ==
    IF b = "memory" \/ present \in {Absent, EmptyFile} THEN data
    ELSE data @@ present

UpdateInit ==
    /\ backend \in UpdateBackends
    /\ minConfirmations = 1
    /\ store = [i \in StoredIds |-> NoPayment]
    /\ ret = [kind |-> "none"]
    /\ enabled = {Bitcoin}
    /\ zeroKeyAt = NoIndex
    /\ client = "any"
    /\ WalletInit
    /\ DeriversIdle
    /\ CallersIdle
    /\ ClockInit
    /\ MonitorInit
    /\ DiskIdle
    /\ EdgeIdle

\* a call in progress
Running(v) == upc[v].pc \in {"called", "locked", "open"}

\* a goroutine calls UpdatePayment(p); overlap: history, another call was in
\* progress then
UpdateCall(u, p) ==
    /\ upc[u].pc = "idle"
    /\ upc' = [upc EXCEPT ![u] =
                 [pc |-> "called", p |-> p,
                  overlap |-> \E v \in Updaters \ {u} : Running(v)]]
    /\ UNCHANGED <<configVars, edgeVars, storeVars, walletVars, deriverVars, callerVars,
                   timeVars, monVars, files, smu>>

\* m.mu.Lock()
UpdateLock(u) ==
    /\ upc[u].pc = "called"
    /\ StoreMutexFree
    /\ smu' = u
    /\ upc' = [upc EXCEPT ![u].pc = "locked"]
    /\ UNCHANGED <<configVars, edgeVars, storeVars, walletVars, deriverVars, callerVars,
                   timeVars, monVars, files>>

\* json.Marshal, then os.WriteFile opens the file
UpdateOpen(u) ==
    /\ upc[u].pc = "locked"
    /\ LET id == upc[u].p.id IN
         files' = [files EXCEPT ![id] =
                     [bytes |-> Truncated(backend, files[id].bytes),
                      written |-> files[id].written]]
    /\ upc' = [upc EXCEPT ![u].pc = "open"]
    /\ UNCHANGED <<configVars, edgeVars, storeVars, walletVars, deriverVars, callerVars,
                   timeVars, monVars, smu>>

\* os.WriteFile writes the data (m.payments[p.ID] = p in MemoryStore); the
\* deferred Unlock runs and the call returns
UpdateWrite(u) ==
    /\ upc[u].pc = "open"
    /\ LET id == upc[u].p.id
           data == Encode(backend, upc[u].p, 1)
       IN  files' = [files EXCEPT ![id] =
                       [bytes |-> Overlay(backend, data, files[id].bytes),
                        written |-> data]]
    /\ smu' = 0
    /\ upc' = [upc EXCEPT ![u].pc = "done"]
    /\ UNCHANGED <<configVars, edgeVars, storeVars, walletVars, deriverVars, callerVars,
                   timeVars, monVars>>

UpdateNext ==
    \/ \E u \in Updaters, p \in UpdatePayments : UpdateCall(u, p)
    \/ \E u \in Updaters : UpdateLock(u)
    \/ \E u \in Updaters : UpdateOpen(u)
    \/ \E u \in Updaters : UpdateWrite(u)

UpdateSpec == UpdateInit /\ [][UpdateNext]_vars

(***************************************************************************)
(* Claims about ListPendingPayments.                                       *)
(***************************************************************************)
Listed == ret.kind = "list" /\ ~ret.err

\* the store holds exactly four payments, with the confirmation counts cs
Holds(cs) ==
    /\ Cardinality(Stored(store)) = Cardinality(cs)
    /\ {p.confirmations : p \in Stored(store)} = cs

\* C1: for every store backend, with stored payments of confirmations
\* {0, 1, 3, 6} and minimum confirmations 1, ListPendingPayments returns
\* exactly the payments below the minimum (the 0-confirmation one), never the
\* 3- or 6-confirmation ones.
C1_ListPendingBelowMinimum ==
    (Listed /\ Holds({0, 1, 3, 6}) /\ minConfirmations = 1) =>
        ret.payments = {p \in Stored(store) : p.confirmations < minConfirmations}

\* the stores of the store tests: four payments with confirmations 0, 1,
\* 2 or 3, and 5 or 6
TestScenario == \E a \in {2, 3}, b \in {5, 6} : Holds({0, 1, a, b})

C3_IndexRestoredAfterStoreError ==
    \A k \in Callers :
        cres[k].kind = "store_error" =>
            \A c \in enabled : cres[k].after[c] = cres[k].before[c]

HasAddress(id, c) ==
    store[id] # NoPayment /\ c \in DOMAIN store[id].addresses

\* C4: across every interleaving of CreatePayment calls, failed attempts
\* included, no two stored payments have the same address for the same
\* currency.
C4_StoredAddressesUnique ==
    \A i, j \in PaymentIds, c \in Currencies :
        (i # j /\ HasAddress(i, c) /\ HasAddress(j, c)) =>
            store[i].addresses[c] # store[j].addresses[c]

\* two payments are stored, and an attempt between them used up an index and
\* failed at the store
C4_Witness ==
    /\ \E i, j \in PaymentIds :
         i # j /\ HasAddress(i, Bitcoin) /\ HasAddress(j, Bitcoin)
    /\ \E k \in Callers : cres[k].kind = "store_error"
    /\ nextIndex[Bitcoin] = 3

\* the DeriveNextAddress calls that returned an address
Succeeded == {n \in 1..Len(derived) : ~derived[n].err}

\* C5: the addresses returned by concurrent DeriveNextAddress calls on one
\* wallet are pairwise distinct, and once the calls have returned the
\* wallet's next index is its initial index (0) plus the number of addresses
\* returned.
C5_DerivedDistinctAndCounted ==
    /\ \A m, n \in Succeeded :
         m # n => derived[m].address # derived[n].address
    /\ (\A d \in Derivers : wpc[d] = "idle") =>
         \A c \in enabled : nextIndex[c] = Cardinality(Succeeded)

\* every call of the scenario returned an address, and not all to the same
\* goroutine
C5_Witness ==
    /\ \A d \in Derivers : wpc[d] = "idle"
    /\ Cardinality(Succeeded) = MaxDerive
    /\ Cardinality({derived[n].by : n \in Succeeded}) > 1

Overdue(id) ==
    /\ store[id] # NoPayment
    /\ store[id].status = StatusPending
    /\ now > store[id].expiresAt

\* the payment has left the pending status
Settled(id) ==
    /\ store[id] # NoPayment
    /\ store[id].status \in {StatusExpired, StatusConfirmed}

\* C7: a payment whose expiresAt has passed without it being confirmed is
\* eventually marked expired; it does not stay pending forever (stated for
\* the behaviours in which the monitor is never cancelled).
C7_ExpiredEventuallyMarked ==
    ([]~cancelled) => \A id \in PaymentIds : Overdue(id) ~> Settled(id)

\* C8: while consecutive polling cycles fail, the delay before the next
\* cycle strictly increases from one cycle to the next until it reaches a
\* cap (5 minutes for a base of 10 s), and never exceeds the cap.
C8_DelayGrowsWhileFailing ==
    LET cap == 30 * TickerInterval IN
    (Len(cycleLog) = 2 /\ cycleLog[1].failed /\ cycleLog[2].failed) =>
        /\ cycleLog[2].delay <= cap
        /\ cycleLog[2].delay > cycleLog[1].delay \/ cycleLog[2].delay = cap

\* C9: after one fully successful polling cycle the polling interval is the
\* base interval again, however many failed cycles preceded it.
C9_BaseIntervalAfterSuccess ==
    (Len(cycleLog) > 0 /\ ~cycleLog[Len(cycleLog)].failed) =>
        /\ interval = TickerInterval
        /\ cycleLog[Len(cycleLog)].delay = TickerInterval

\* a failed cycle was followed by a fully successful one
C9_Witness ==
    /\ Len(cycleLog) = 2
    /\ cycleLog[1].failed
    /\ ~cycleLog[2].failed

\* C10: once the context has been cancelled no new polling cycle starts:
\* checkPendingPayments is not entered, even if a tick is pending.
C10_NoCycleAfterCancel == [][cancelled => ~MonitorTick]_vars

\* the <<payment id, currency>> pairs a sequence of checks covers
Covered(cs) == {<<cs[i].id, cs[i].currency>> : i \in 1..Len(cs)}

\* C11: a failed check of one payment does not abort the polling cycle: the
\* cycle ends only when every payment ListPendingPayments returned to it has
\* had both of its checks.
C11_CycleChecksEveryListedPayment ==
    [][(monPc = "cycle" /\ monPc' = "select") =>
         Covered(checks) \cup {<<Head(batch).id, bstep>>}
             = listed \X Currencies]_vars

\* a check of one payment failed and a check of another payment was made
\* after it in the same cycle
C11_Witness ==
    /\ monPc = "cycle"
    /\ \E i, j \in 1..Len(checks) :
         i < j /\ checks[i].err /\ checks[j].id # checks[i].id

\* C12: when DeriveNextAddress fails for one enabled currency, CreatePayment
\* returns an error and every wallet's next index equals its value before
\* the attempt (derivations of other callers in between set aside).
C12_IndexRestoredAfterDeriveError ==
    \A k \in Callers :
        cres[k].kind = "derive_error" =>
            \A c \in enabled : cres[k].after[c] = cres[k].before[c]

\* the payment has an address and an amount for exactly the enabled
\* currencies
FullyPopulated(p) ==
    /\ DOMAIN p.addresses = enabled
    /\ DOMAIN p.amounts = enabled

\* C13: every payment CreatePayment returns or writes to the store has an
\* address and an amount for every enabled currency: the key sets of
\* addresses and amounts are both the set of enabled currencies.
C13_PaymentsFullyPopulated ==
    /\ \A p \in Stored(store) : FullyPopulated(p)
    /\ \A k \in Callers : cres[k].kind = "ok" => FullyPopulated(cres[k].payment)

\* with two currencies enabled, one CreatePayment returned a payment and
\* another failed after its first derivation
C13_Witness ==
    /\ enabled = {Bitcoin, Monero}
    /\ \E k \in Callers :
         cres[k].kind = "ok" /\ store[cres[k].payment.id] = cres[k].payment
    /\ \E k \in Callers :
         /\ cres[k].kind = "derive_error"
         /\ cres[k].after # cres[k].before

\* C14: if no currency is enabled, CreatePayment returns an error and no
\* payment, and makes no call to the store.
C14_NoWalletsNoStoreCall ==
    enabled = {} =>
        /\ Stored(store) = {}
        /\ \A k \in Callers :
             cres[k].kind # "none" =>
                 cres[k].kind = "no_wallets" /\ ~cres[k].stored

\* a CreatePayment call on a Paywall without wallets has returned
C14_Witness ==
    /\ enabled = {}
    /\ \E k \in Callers : cres[k].kind = "no_wallets"

\* C15: for a payment created with one currency, when the client's balance
\* query fails in the first two polling cycles and returns the amount in the
\* third, the payment stays pending through the first two cycles and is
\* confirmed in the third, with at least the minimum of confirmations, and
\* ListPendingPayments no longer returns it.
C15_ConfirmedInThirdCycle ==
    \A p \in Stored(store) :
        /\ balanceCalls < 3 => p.status = StatusPending
        /\ balanceCalls = 3 =>
             /\ p.status = StatusConfirmed
             /\ p.confirmations >= minConfirmations
             /\ p \notin ListPendingPayments(backend, store)

(***************************************************************************)
(* Claims about the store operations.                                      *)
(***************************************************************************)
IsConfirmed(st, id) == st[id] # NoPayment /\ st[id].status = StatusConfirmed

\* C16: once a stored payment's status is confirmed it is confirmed in every
\* later state: no store operation changes it to pending or expired.
C16_ConfirmedStaysConfirmed ==
    [][\A id \in StoredIds : IsConfirmed(store, id) => IsConfirmed(store', id)]_vars

\* C17: ListPendingPayments returns only payments whose status is pending and
\* whose expiry time has not passed (here: the list a polling cycle begins
\* with).
C17_ListedArePendingAndUnexpired ==
    [][(monPc = "select" /\ monPc' = "cycle") =>
         \A i \in 1..Len(batch') :
             /\ batch'[i].status = StatusPending
             /\ batch'[i].expiresAt >= now]_vars

\* C18: CreatePayment on a store that already holds a record with the same
\* id does not overwrite it: a CreatePayment call leaves every record that
\* was stored before it unchanged.
C18_CreateKeepsExistingRecord ==
    [][ret'.kind = "create" =>
         \A id \in StoredIds :
             store[id] # NoPayment => store'[id] = store[id]]_vars

\* C19: UpdatePayment for an id that has no stored record returns an error
\* and creates no record.
C19_UpdateOfMissingFails ==
    [][(ret'.kind = "update" /\ store[ret'.id] = NoPayment) =>
         ret'.err /\ store'[ret'.id] = NoPayment]_vars

C21_GetAfterCreateReturnsPayment ==
    (ret.kind = "create" /\ ~ret.err /\ ~Modified(ret.payment.id)) =>
        LET g == GetPayment(backend, files, ret.payment.id)
        IN  ~g.err /\ g.payment = ret.payment

\* C21's case: a payment with a transaction id was created in the encrypted
\* store
C21_Witness ==
    /\ ret.kind = "create"
    /\ ~ret.err
    /\ backend = "encfile"
    /\ ret.payment.transactionID # NoTx
    /\ GetPayment(backend, files, ret.payment.id).payment = ret.payment


\* the ids ListPendingPayments of store b returns for the records st
PendingIds(b, st) == {p.id : p \in ListPendingPayments(b, st)}

\* C22: the records a sequence of successful CreatePayment and UpdatePayment
\* calls leaves are the same in every store (each call puts its argument
\* under p.ID); for these records the memory, file and encrypted-file stores
\* return the same set of payment ids from ListPendingPayments
C22_SameListOnAllBackends ==
    \A b1, b2 \in DiskBackends : PendingIds(b1, store) = PendingIds(b2, store)

\* every call has returned
AllReturned == \A u \in Updaters : upc[u].pc = "done"

\* C23: when UpdatePayment calls for one payment id ran concurrently, the
\* record stored once they have returned is the one written last, whole, and
\* it is the argument of one of the calls
C23_ConcurrentUpdatesLeaveOneRecord ==
    AllReturned =>
        /\ files[1].bytes = files[1].written
        /\ ~GetPayment(backend, files, 1).err
        /\ GetPayment(backend, files, 1).payment \in
               {upc[u].p : u \in Updaters}

\* C23's case: calls with different records overlapped on the file store and
\* have returned
C23_Witness ==
    /\ AllReturned
    /\ backend = "file"
    /\ \E u, v \in Updaters :
         /\ upc[u].overlap
         /\ upc[u].p.transactionID # upc[v].p.transactionID
    /\ GetPayment(backend, files, 1).payment \in {upc[u].p : u \in Updaters}

(***************************************************************************)
(* Claims about the monitor and the clients of the Paywall.                *)
(***************************************************************************)
\* C24: whatever the monitor does, and wherever it stalls, a CreatePayment
\* call in progress returns, and the payment of a call that returned without
\* error is in the store
C24_CreateCompletesWhileMonitorBusy ==
    /\ (cpc[Client] = "range") ~> (cpc[Client] = "idle")
    /\ [](cres[Client].kind = "ok" =>
            store[cres[Client].payment.id] # NoPayment)

\* C24's case: the monitor is inside a cycle that has failed so far, and a
\* payment the cycle did not list, so stored after the cycle began, is there
C24_Witness ==
    /\ monPc = "cycle"
    /\ cycleErr
    /\ cres[Client].kind = "ok"
    /\ cres[Client].payment.id \notin listed
    /\ store[cres[Client].payment.id] # NoPayment

\* C25: in a polling cycle no check of a payment fails for want of a
\* client: a check that returned an error was made with a client for its
\* currency in monitor.client
C25_NoCheckFailsForMissingClient ==
    \A i \in DOMAIN checks : checks[i].err => checks[i].currency \in clients

(***************************************************************************)
(* Claims about the wallets.                                               *)
(***************************************************************************)
\* C26: a GetAddress call that returns leaves the wallet's index as it was,
\* unless no address had been derived yet (index 0)
C26_GetAddressKeepsIndex ==
    [][\A d \in Derivers, c \in Currencies :
          (GetAddressReturn(d, c) /\ nextIndex[c] > 0) =>
              nextIndex'[c] = nextIndex[c]]_vars

\* C27: a DeriveNextAddress call of the Bitcoin wallet whose derivation at
\* the current index gives a zero child key returns an address all the same,
\* with the index moved past the skipped index and the one used
C27_ZeroKeyIndexSkipped ==
    [][\A d \in Derivers :
          (DeriveReturn(d, Bitcoin) /\ DeriveKeyFails(widx[d])) =>
              /\ ~derived'[Len(derived')].err
              /\ nextIndex'[Bitcoin] >= widx[d] + 2]_vars

\* the fields CreatePayment sets for good
Identity(p) == <<p.id, p.addresses, p.amounts, p.createdAt, p.expiresAt>>

C29_ReturnedPaymentPendingWithExpiry ==
    \A k \in Callers :
        cres[k].kind = "ok" =>
            /\ cres[k].payment.status = StatusPending
            /\ cres[k].payment.confirmations = 0
            /\ cres[k].payment.expiresAt =
                   cres[k].payment.createdAt + paymentTimeout

C31_IndexMovesOnlyOnSuccess ==
    [][\A d \in Derivers, c \in Currencies :
          DeriveReturn(d, c) =>
              LET e == derived'[Len(derived')] IN
                IF e.err
                THEN e.address = "" /\ nextIndex' = nextIndex
                ELSE nextIndex' = [nextIndex EXCEPT ![c] = @ + 1]]_vars

\* C31's case: calls have failed and calls have succeeded, and the index
\* counts the successes
C31_Witness ==
    /\ \E i \in DOMAIN derived : derived[i].err
    /\ Cardinality({i \in DOMAIN derived : ~derived[i].err}) >= 2
    /\ \E c \in enabled :
         nextIndex[c] = Cardinality({i \in DOMAIN derived : ~derived[i].err})

(***************************************************************************)
(* Base58 (wallet/base58.go).  A byte slice is a sequence of 0..255, a     *)
(* string a sequence of one-character strings.                             *)
(***************************************************************************)
MaxLen == 2

\* the byte values inputs are made of: both ends of the range, the values
\* around the base, and one with the top bit set
ByteValues == {0, 1, 57, 58, 128, 255}

ByteSeqs == UNION {[1..n -> ByteValues] : n \in 0..MaxLen}

base58Alphabet ==
    <<"1", "2", "3", "4", "5", "6", "7", "8", "9",
      "A", "B", "C", "D", "E", "F", "G", "H", "J", "K", "L", "M", "N",
      "P", "Q", "R", "S", "T", "U", "V", "W", "X", "Y", "Z",
      "a", "b", "c", "d", "e", "f", "g", "h", "i", "j", "k", "m",
      "n", "o", "p", "q", "r", "s", "t", "u", "v", "w", "x", "y", "z">>

Base == Len(base58Alphabet)

\* big.Int.SetBytes: the big-endian unsigned value of the bytes
RECURSIVE SetBytes(_)
SetBytes(bs) ==
    IF bs = <<>> THEN 0
    ELSE SetBytes(SubSeq(bs, 1, Len(bs) - 1)) * 256 + bs[Len(bs)]

\* big.Int.Bytes: the shortest big-endian form, empty for zero
RECURSIVE Bytes(_)
Bytes(x) == IF x = 0 THEN <<>> ELSE Bytes(x \div 256) \o <<x % 256>>

\* the DivMod loop: one character per base-58 digit, least significant first
RECURSIVE Digits(_)
Digits(x) ==
    IF x > 0 THEN <<base58Alphabet[(x % Base) + 1]>> \o Digits(x \div Base)
    ELSE <<>>

\* how many times the loops "for ... if b != v break" go round
RECURSIVE LeadingCount(_, _)
LeadingCount(s, v) ==
    IF s # <<>> /\ Head(s) = v THEN 1 + LeadingCount(Tail(s), v) ELSE 0

Repeat(v, n) == [i \in 1..n |-> v]

Reverse(s) == [i \in 1..Len(s) |-> s[Len(s) + 1 - i]]

Base58Encode(input) ==
    Reverse(Digits(SetBytes(input))
              \o Repeat(base58Alphabet[1], LeadingCount(input, 0)))

\* strings.IndexRune(base58Alphabet, r), counted from 0
IndexRune(r) ==
    IF \E i \in 1..Base : base58Alphabet[i] = r
    THEN (CHOOSE i \in 1..Base : base58Alphabet[i] = r) - 1
    ELSE -1

\* the accumulation loop of Base58Decode over valid characters
RECURSIVE Accumulate(_)
Accumulate(text) ==
    IF text = <<>> THEN 0
    ELSE Accumulate(SubSeq(text, 1, Len(text) - 1)) * Base
           + IndexRune(text[Len(text)])

\* Base58Decode without its loop that restores the leading zero bytes
Base58Decode_Minimal(text) ==
    IF \E i \in DOMAIN text : IndexRune(text[i]) = -1
    THEN [err |-> TRUE, bytes |-> <<>>]
    ELSE [err |-> FALSE, bytes |-> Bytes(Accumulate(text))]

Base58Decode(text) ==
    IF \E i \in DOMAIN text : IndexRune(text[i]) = -1
    THEN [err |-> TRUE, bytes |-> <<>>]
    ELSE [err |-> FALSE,
          bytes |-> Repeat(0, LeadingCount(text, "1"))
                      \o Bytes(Accumulate(text))]

\* texts that are not the encoding of anything: a character outside the
\* alphabet ("0", "O", "I", "l" are left out of it) somewhere in them
ForeignCharacters == {"0", "O", "I", "l"}

Base58Init ==
    /\ backend = "memory"
    /\ minConfirmations = 1
    /\ store = [i \in StoredIds |-> NoPayment]
    /\ ret = [kind |-> "none"]
    /\ enabled = {Bitcoin}
    /\ zeroKeyAt = NoIndex
    /\ client = "any"
    /\ WalletInit
    /\ DeriversIdle
    /\ CallersIdle
    /\ ClockInit
    /\ MonitorInit
    /\ DiskIdle
    /\ resp = [kind |-> "none"]
    /\ funds = NoFunds
    /\ b58 \in {[stage |-> "input", input |-> bs] : bs \in ByteSeqs}

EncodeCall ==
    /\ b58.stage = "input"
    /\ b58' = [stage |-> "encoded", input |-> b58.input,
               text |-> Base58Encode(b58.input)]
    /\ UNCHANGED <<configVars, storeVars, walletVars, deriverVars,
                   callerVars, timeVars, monVars, diskVars, resp, funds>>

DecodeCall ==
    /\ b58.stage = "encoded"
    /\ LET r == Base58Decode(b58.text) IN
         b58' = [stage |-> "decoded", input |-> b58.input,
                 text |-> b58.text, err |-> r.err, bytes |-> r.bytes]
    /\ UNCHANGED <<configVars, storeVars, walletVars, deriverVars,
                   callerVars, timeVars, monVars, diskVars, resp, funds>>

\* the text reaches the decoder with one character replaced on the way
DecodeForeignCall ==
    /\ b58.stage = "encoded"
    /\ \E i \in DOMAIN b58.text, ch \in ForeignCharacters :
         LET text == [b58.text EXCEPT ![i] = ch]
             r    == Base58Decode(text)
         IN b58' = [stage |-> "foreign", input |-> b58.input,
                    text |-> text, err |-> r.err, bytes |-> r.bytes]
    /\ UNCHANGED <<configVars, storeVars, walletVars, deriverVars,
                   callerVars, timeVars, monVars, diskVars, resp, funds>>

Base58Next == EncodeCall \/ DecodeCall \/ DecodeForeignCall

Base58Spec == Base58Init /\ [][Base58Next]_vars

\* C32: decoding the encoding of any byte sequence, the empty, the all-zero
\* and the all-0xFF ones included, returns that sequence without an error,
\* and the encoded text starts with exactly one "1" for every leading zero
\* byte of the input, as the decoded bytes start with one zero byte for
\* every leading "1".
C32_Base58RoundTrip ==
    /\ b58.stage \in {"encoded", "decoded"} =>
         LeadingCount(b58.text, "1") = LeadingCount(b58.input, 0)
    /\ b58.stage = "decoded" =>
         /\ ~b58.err
         /\ b58.bytes = b58.input
         /\ LeadingCount(b58.bytes, 0) = LeadingCount(b58.text, "1")

C32_Witness ==
    /\ b58.stage = "decoded"
    /\ b58.input = <<0, 255>>
    /\ b58.text = <<"1", "5", "Q">>
    /\ b58.bytes = <<0, 255>>

(***************************************************************************)
(* The middleware (middleware.go).  A request carries the payment_id       *)
(* cookie or none; resp is what the handler wrote.                         *)
(***************************************************************************)
NoCookie == 0

\* an id no payment was stored under
UnknownId == MaxCreate + 1

Cookies == {NoCookie, UnknownId} \cup PaymentIds

\* what Store.GetPayment gives the handler: [err, payment], NoPayment for nil
Lookups(cookie) ==
    {[err |-> FALSE,
      payment |-> IF cookie \in DOMAIN store THEN store[cookie] ELSE NoPayment]}
      \cup (IF CanFail(backend) THEN {[err |-> TRUE, payment |-> NoPayment]}
            ELSE {})

\* a mutant of Allow: the expiry time is not looked at
Allow_Expired(p, t) == p.status = StatusConfirmed

\* payment.Status == StatusConfirmed && time.Now().Before(payment.ExpiresAt)
Allow(p, t) == p.status = StatusConfirmed /\ t < p.expiresAt

\* payment.Status == StatusPending && time.Now().Before(payment.ExpiresAt)
ShowExisting(p, t) == p.status = StatusPending /\ t < p.expiresAt

\* renderPaymentPage: the page, or a 500 when the template fails
Rendered(p, new) ==
    {[kind |-> "page", payment |-> p, new |-> new],
     [kind |-> "error", code |-> 500]}

\* the handler up to its call of CreatePayment
MiddlewareRequest(cookie) ==
    /\ resp.kind # "creating"
    /\ \E got \in (IF cookie = NoCookie
                   THEN {[err |-> TRUE, payment |-> NoPayment]}
                   ELSE Lookups(cookie)), t2 \in SecondRead(now) :
         LET p == got.payment
             found == ~got.err /\ p # NoPayment
         IN
           IF found /\ Allow(p, now)
           THEN /\ resp' = [kind |-> "content", cookie |-> cookie]
                /\ UNCHANGED callerVars
           ELSE IF found /\ ShowExisting(p, t2)
           THEN /\ resp' \in Rendered(p, FALSE)
                /\ UNCHANGED callerVars
           ELSE /\ CreateBeginCall(Client, now, t2)
                /\ resp' = [kind |-> "creating", cookie |-> cookie]
    /\ UNCHANGED <<configVars, storeVars, walletVars, deriverVars, timeVars,
                   monVars, diskVars, b58, funds>>

\* CreatePayment has returned: a 500 on its error, else the new cookie and
\* the payment page
MiddlewareRespond ==
    /\ resp.kind = "creating"
    /\ cpc[Client] = "idle"
    /\ resp' \in (IF cres[Client].kind = "ok"
                  THEN Rendered(cres[Client].payment, TRUE)
                  ELSE {[kind |-> "error", code |-> 500]})
    /\ UNCHANGED <<configVars, storeVars, walletVars, deriverVars, callerVars,
                   timeVars, monVars, diskVars, b58, funds>>

\* two payments made earlier through the paywall, one still pending and one
\* the monitor has confirmed
MiddlewareInit ==
    /\ backend \in SystemBackends
    /\ minConfirmations = 1
    /\ enabled \in {{Bitcoin}, {Bitcoin, Monero}}
    /\ store = [i \in PaymentIds |->
                  IF i = 1 THEN CreatedPayment(1, enabled, NoTx)
                  ELSE IF i = 2
                  THEN Confirm(CreatedPayment(2, enabled, "tx"), 1)
                  ELSE NoPayment]
    /\ ret = [kind |-> "none"]
    /\ zeroKeyAt = NoIndex
    /\ client = "any"
    /\ nextIndex = [c \in Currencies |-> IF c \in enabled THEN 2 ELSE 0]
    /\ xmrSubaddresses = nextIndex[Monero]
    /\ mu = [c \in Currencies |-> 0]
    /\ DeriversIdle
    /\ nextId = 3
    /\ cpc = [k \in Callers |-> "idle"]
    /\ cpay = [k \in Callers |-> NoPayment]
    /\ ctodo = [k \in Callers |-> {}]
    /\ cbase = [k \in Callers |-> [c \in Currencies |-> 0]]
    /\ cres = [k \in Callers |-> NoResult]
    /\ ClockInit
    /\ MonitorInit
    /\ DiskIdle
    /\ EdgeIdle

MiddlewareNext ==
    \/ \E cookie \in Cookies : MiddlewareRequest(cookie)
    \/ MiddlewareRespond
    \/ CreateDerive(Client)
    \/ CreateStore(Client)
    \/ Advance
    \/ TimerFire

MiddlewareSpec == MiddlewareInit /\ [][MiddlewareNext]_vars

\* C33: the handler serves the protected content only to a request whose
\* cookie names a stored payment that is confirmed and whose expiry time is
\* still ahead; any other request is answered with the page of the existing
\* pending unexpired payment, or goes on to CreatePayment and is answered
\* with the new payment's page or a 500.
C33_ContentOnlyForConfirmedUnexpired ==
    [][\A cookie \in Cookies :
         MiddlewareRequest(cookie) =>
           LET valid(st) == /\ cookie \in DOMAIN store
                            /\ store[cookie] # NoPayment
                            /\ store[cookie].status = st
                            /\ now < store[cookie].expiresAt
           IN /\ resp'.kind = "content" => valid(StatusConfirmed)
              /\ resp'.kind = "page" =>
                   /\ valid(StatusPending)
                   /\ resp'.payment = store[cookie]
              /\ ~valid(StatusConfirmed) =>
                   \/ resp'.kind = "page"
                   \/ resp'.kind = "error" /\ resp'.code = 500
                   \/ resp'.kind = "creating"]_vars
      /\ [][MiddlewareRespond =>
              \/ /\ resp'.kind = "page"
                 /\ resp'.new
                 /\ store[resp'.payment.id] = resp'.payment
              \/ resp'.kind = "error" /\ resp'.code = 500]_vars

C33_Witness ==
    /\ resp.kind = "content"
    /\ resp.cookie = 2
    /\ now = 0
    /\ store[3] # NoPayment

(***************************************************************************)
(* Goroutines calling CreatePayment of one store at once, each with an id  *)
(* of its own (memstore_test.go, filestore_test.go).  upc holds their      *)
(* positions, smu the store's lock.                                        *)
(***************************************************************************)
CreateBackends == {"memory", "file", "encfile"}

\* goroutine u creates a payment with id u
CreatorPayments(u) == {CreatedPayment(u, {Bitcoin}, tx) : tx \in {NoTx, "tx"}}

CreateInit ==
    /\ backend \in CreateBackends
    /\ minConfirmations = 1
    /\ store = [i \in StoredIds |-> NoPayment]
    /\ ret = [kind |-> "none"]
    /\ enabled = {Bitcoin}
    /\ zeroKeyAt = NoIndex
    /\ client = "any"
    /\ WalletInit
    /\ DeriversIdle
    /\ CallersIdle
    /\ ClockInit
    /\ MonitorInit
    /\ DiskIdle
    /\ EdgeIdle

\* a goroutine calls CreatePayment(p)
CreateCall(u, p) ==
    /\ upc[u].pc = "idle"
    /\ upc' = [upc EXCEPT ![u] =
                 [pc |-> "called", p |-> p,
                  overlap |-> \E v \in Updaters \ {u} : Running(v)]]
    /\ UNCHANGED <<configVars, edgeVars, storeVars, walletVars, deriverVars,
                   callerVars, timeVars, monVars, files, smu>>

\* m.mu.Lock().  MemoryStore's map assignment starts from the table as it is
\* now: it is one operation only for a caller that holds the lock
CreateLock(u) ==
    /\ upc[u].pc = "called"
    /\ StoreMutexFree
    /\ smu' = u
    /\ upc' = [upc EXCEPT ![u] =
                 [pc |-> "locked", p |-> @.p, overlap |-> @.overlap,
                  table |-> store]]
    /\ UNCHANGED <<configVars, edgeVars, storeVars, walletVars, deriverVars,
                   callerVars, timeVars, monVars, files>>

\* the records a write by u starts from: the map's table as the assignment
\* found it, or the directory as it is (every payment has a file of its own)
TableFor(b, u) == IF b = "memory" THEN upc[u].table ELSE store

\* m.payments[p.ID] = p, or os.WriteFile, which can fail; the deferred
\* Unlock runs and the call returns
CreateWrite(u) ==
    /\ upc[u].pc = "locked"
    /\ \E ok \in (IF CanFail(backend) THEN BOOLEAN ELSE {TRUE}) :
         /\ store' = IF ok
                     THEN StorePayment(backend, TableFor(backend, u), upc[u].p)
                     ELSE store
         /\ upc' = [upc EXCEPT ![u] =
                      [pc |-> "done", p |-> @.p, overlap |-> @.overlap,
                       err |-> ~ok]]
    /\ smu' = 0
    /\ ret' = ret
    /\ UNCHANGED <<configVars, edgeVars, walletVars, deriverVars, callerVars,
                   timeVars, monVars, files>>

\* GetPayment(id): RLock, the record or nil
CreateGet(id) ==
    /\ StoreMutexFree
    /\ ret' = [kind |-> "get", id |-> id, payment |-> store[id]]
    /\ UNCHANGED <<configVars, edgeVars, store, walletVars, deriverVars,
                   callerVars, timeVars, monVars, diskVars>>

CreateNext ==
    \/ \E u \in Updaters : \E p \in CreatorPayments(u) : CreateCall(u, p)
    \/ \E u \in Updaters : CreateLock(u)
    \/ \E u \in Updaters : CreateWrite(u)
    \/ \E u \in Updaters : CreateGet(u)

CreateSpec == CreateInit /\ [][CreateNext]_vars

\* the CreatePayment call of goroutine u has returned nil
Created(u) == upc[u].pc = "done" /\ ~upc[u].err

\* C34: however the CreatePayment calls with distinct ids interleave, the
\* payment of every call that has returned without error is in the store
\* under its own id, and a GetPayment of that id made from then on returns it.
C34_NoCreateLost ==
    /\ [](\A u \in Updaters : Created(u) => store[u] = upc[u].p)
    /\ [][\A u \in Updaters :
            (Created(u) /\ CreateGet(u)) => ret'.payment = upc[u].p]_vars

\* C34's case: every goroutine's call overlapped another's, all returned nil
\* and the last payment has been read back
C34_Witness ==
    /\ \A u \in Updaters : Created(u)
    /\ \E u \in Updaters : upc[u].overlap
    /\ ret.kind = "get"
    /\ ret.id = NumUpdaters
    /\ ret.payment = upc[NumUpdaters].p
    /\ backend = "memory"

(***************************************************************************)
(* The monitor with the wallets as its clients and customers paying to     *)
(* the addresses of stored payments.                                       *)
(***************************************************************************)
\* the payments of the scenario: made by CreatePayment with both wallets
\* enabled, some with a transaction recorded
FundsInit ==
    /\ backend \in SystemBackends
    /\ minConfirmations = 1
    /\ enabled = {Bitcoin, Monero}
    /\ \E txs \in [1..MaxBatch -> {NoTx, "tx"}] :
         store = [i \in PaymentIds |->
                    IF i <= MaxBatch THEN CreatedPayment(i, enabled, txs[i])
                    ELSE NoPayment]
    /\ ret = [kind |-> "none"]
    /\ zeroKeyAt = NoIndex
    /\ client = "wallet"
    /\ nextIndex = [c \in Currencies |-> MaxBatch]
    /\ xmrSubaddresses = nextIndex[Monero]
    /\ mu = [c \in Currencies |-> 0]
    /\ DeriversIdle
    /\ nextId = MaxBatch + 1
    /\ cpc = [k \in Callers |-> "idle"]
    /\ cpay = [k \in Callers |-> NoPayment]
    /\ ctodo = [k \in Callers |-> {}]
    /\ cbase = [k \in Callers |-> [c \in Currencies |-> 0]]
    /\ cres = [k \in Callers |-> NoResult]
    /\ now = 0
    /\ untilTick = TickerInterval
    /\ interval = TickerInterval
    /\ tickPending = TRUE
    /\ MonitorInit
    /\ DiskIdle
    /\ EdgeIdle

\* a customer pays the price to the address payment i has for currency c
Receive(c, i) ==
    /\ store[i] # NoPayment
    /\ c \in DOMAIN store[i].addresses
    /\ funds[c][i] = 0
    /\ funds' = [funds EXCEPT ![c][i] = prices[c]]
    /\ UNCHANGED <<configVars, storeVars, walletVars, deriverVars, callerVars,
                   timeVars, monVars, diskVars, b58, resp>>

\* one monitor cycle while customers pay in Monero
FundsNext ==
    \/ \E i \in PaymentIds : Receive(Monero, i)
    \/ MonitorTick
    \/ \E c \in Currencies : MonitorCheck(c)

FundsSpec == FundsInit /\ [][FundsNext]_vars

\* the check of currency c stores payment id as confirmed in this step
MarkedConfirmed(c, id) ==
    /\ MonitorCheck(c)
    /\ Head(batch).id = id
    /\ store[id].status = StatusPending
    /\ store'[id].status = StatusConfirmed

\* C35: when the check of a currency marks a payment confirmed, the funds
\* received at that payment's own address for that currency are at least
\* the amount the payment asks for in it; what other payments' addresses
\* received plays no part.
C35_ConfirmedOnlyByOwnFunds ==
    [][\A c \in Currencies, id \in PaymentIds :
         MarkedConfirmed(c, id) => funds[c][id] >= AmountOf(store[id], c)]_vars

(***************************************************************************)
(* A caller that keeps the Payment a store method returned, changes it as  *)
(* the monitor's checks do, and then calls UpdatePayment.  ret is what the *)
(* caller holds.                                                           *)
(***************************************************************************)
AliasInit ==
    /\ backend \in Backends
    /\ minConfirmations = 1
    /\ store = [i \in StoredIds |-> NoPayment]
    /\ ret = [kind |-> "none"]
    /\ enabled = {Bitcoin}
    /\ zeroKeyAt = NoIndex
    /\ client = "any"
    /\ WalletInit
    /\ DeriversIdle
    /\ CallersIdle
    /\ ClockInit
    /\ MonitorInit
    /\ DiskIdle
    /\ EdgeIdle

\* the caller holds p, the value of record id as the store last returned or
\* took it; dirty: the caller has changed it since
Held(id, p, before, dirty) ==
    [kind |-> "held", id |-> id, payment |-> p, before |-> before,
     dirty |-> dirty]

\* CreatePayment(p): MemoryStore keeps the caller's pointer, the file stores
\* write the marshalled record
AliasCreatePayment(p) ==
    /\ store[p.id] = NoPayment
    /\ store' = StorePayment(backend, store, p)
    /\ ret' = Held(p.id, p, p, FALSE)
    /\ UNCHANGED <<configVars, edgeVars, diskVars, walletVars, deriverVars,
                   callerVars, timeVars, monVars>>

\* GetPayment(id), or one element of ListPendingPayments(): MemoryStore hands
\* out the pointer its map holds, the file stores a freshly unmarshalled value
AliasGetPayment(id) ==
    /\ store[id] # NoPayment
    /\ ret' = Held(id, store[id], store[id], FALSE)
    /\ UNCHANGED <<configVars, edgeVars, diskVars, store, walletVars,
                   deriverVars, callerVars, timeVars, monVars>>

\* what the store holds after the holder of record id assigned to the fields
\* of its Payment: with MemoryStore the holder's Payment is the stored one
AfterAssign(b, st, id, p) == IF b = "memory" THEN [st EXCEPT ![id] = p] ELSE st

\* payment.Status = StatusConfirmed; payment.Confirmations = confirmations,
\* the assignments of the monitor's checks, UpdatePayment not yet called
AliasAssign(conf) ==
    /\ ret.kind = "held"
    /\ ret.payment.status = StatusPending
    /\ LET p == Confirm(ret.payment, conf) IN
         /\ ret' = Held(ret.id, p, ret.before, TRUE)
         /\ store' = AfterAssign(backend, store, ret.id, p)
    /\ UNCHANGED <<configVars, edgeVars, diskVars, walletVars, deriverVars,
                   callerVars, timeVars, monVars>>

\* m.paywall.Store.UpdatePayment(payment), which can fail on a file store
AliasUpdatePayment ==
    /\ ret.kind = "held"
    /\ \E ok \in (IF CanFail(backend) THEN BOOLEAN ELSE {TRUE}) :
         /\ store' = IF ok THEN UpdatePayment(backend, store, ret.payment)
                     ELSE store
         /\ ret' = IF ok THEN Held(ret.id, ret.payment, ret.payment, FALSE)
                   ELSE ret
    /\ UNCHANGED <<configVars, edgeVars, diskVars, walletVars, deriverVars,
                   callerVars, timeVars, monVars>>

\* the payments created: as CreatePayment builds them, with or without a
\* transaction recorded
AliasPayments ==
    {CreatedPayment(i, {Bitcoin}, tx) : i \in 1..MaxBatch, tx \in {NoTx, "tx"}}

AliasNext ==
    \/ \E p \in AliasPayments : AliasCreatePayment(p)
    \/ \E id \in 1..MaxBatch : AliasGetPayment(id)
    \/ \E conf \in 1..MaxConf : AliasAssign(conf)
    \/ AliasUpdatePayment

AliasSpec == AliasInit /\ [][AliasNext]_vars

\* C36: while a caller has changed the Payment a store method returned to
\* it and has not passed it to UpdatePayment, the store still holds for that
\* id the record it returned; so also between the monitor's assignments of
\* status and confirmations and its UpdatePayment call, on every backend.
C36_StoreUnchangedUntilUpdate ==
    (ret.kind = "held" /\ ret.dirty) => store[ret.id] = ret.before

(***************************************************************************)
(* The monitor's confirmation of a payment kept by a file store, with the  *)
(* payment file in view: os.WriteFile opens the file with O_TRUNC and then *)
(* writes, and can fail at either call.                                    *)
(***************************************************************************)
FileBackends == {"file", "encfile"}

RetryInit ==
    /\ backend \in FileBackends
    /\ minConfirmations \in {1, 2}
    /\ store = [i \in StoredIds |-> NoPayment]
    /\ ret = [kind |-> "none"]
    /\ enabled = {Bitcoin}
    /\ zeroKeyAt = NoIndex
    /\ client = "any"
    /\ WalletInit
    /\ DeriversIdle
    /\ CallersIdle
    /\ ClockInit
    /\ MonitorInit
    /\ DiskIdle
    /\ EdgeIdle

\* a payment file after os.WriteFile opened it and the write failed: it has
\* length 0, which is less than a nonce
CutShort(b) == IF b = "encfile" THEN ShortFile ELSE EmptyFile

\* what is under id once UpdatePayment has returned: the new record, or
\* after an error the old file (the open failed) or the cut one (the write
\* failed)
AfterWriteFile(b, f, data) ==
    [ok |-> Written(data),
     open_failed |-> f,
     write_failed |-> [bytes |-> CutShort(b), written |-> f.written]]

WriteOutcomes == {"ok", "open_failed", "write_failed"}

\* Paywall.CreatePayment's Store.CreatePayment of a pending payment
RetryCreate(p) ==
    /\ files[p.id] = NoFile
    /\ p.status = StatusPending
    /\ DiskCreatePayment(p)

\* a caller of the exported Store records the transaction that pays a stored
\* payment (GetPayment, set TransactionID, UpdatePayment)
RetryAssociate(id) ==
    /\ files[id] # NoFile
    /\ LET g == GetPayment(backend, files, id) IN
         /\ ~g.err
         /\ g.payment.transactionID = NoTx
         /\ DiskUpdatePayment([g.payment EXCEPT !.transactionID = "tx"])

\* a cycle of checkPendingPayments begins: ListPendingPayments
RetryList ==
    /\ monPc = "select"
    /\ \E order \in Orders(ListPendingPayments(backend,
                                               Readable(backend, files))) :
         /\ order # <<>>
         /\ batch' = order
         /\ listed' = {order[i].id : i \in 1..Len(order)}
    /\ monPc' = "cycle"
    /\ bstep' = Bitcoin
    /\ ret' = [kind |-> "list"]
    /\ UNCHANGED <<configVars, edgeVars, store, walletVars, deriverVars,
                   callerVars, timeVars, diskVars, cycleErr, cycleLog,
                   cancelled, checks, balanceCalls>>

\* CheckBTCPayments, then CheckXMRPayments, of the next listed payment; a
\* check that confirms the payment calls UpdatePayment and drops its error.
\* ret keeps that call
RetryCheck(c) ==
    /\ monPc = "cycle"
    /\ bstep = c
    /\ \E reply \in ClientReplies(c), out \in WriteOutcomes,
          nonce \in NonceValues :
         LET p == Head(batch)
             r == CheckPayment(c, p, reply)
             rest == IF c = Monero THEN Tail(batch)
                     ELSE <<r.payment>> \o Tail(batch)
         IN  /\ IF r.updated
                THEN /\ files' = [files EXCEPT ![p.id] =
                          AfterWriteFile(backend, @,
                              Encode(backend, r.payment, nonce))[out]]
                     /\ ret' = [kind |-> "confirm", err |-> out # "ok",
                                id |-> p.id]
                ELSE /\ files' = files
                     /\ ret' = [kind |-> "check", id |-> p.id]
             /\ batch' = rest
             /\ monPc' = IF rest = <<>> THEN "select" ELSE "cycle"
    /\ bstep' = IF c = Bitcoin THEN Monero ELSE Bitcoin
    /\ UNCHANGED <<configVars, edgeVars, store, walletVars, deriverVars,
                   callerVars, timeVars, smu, upc, cycleErr, cycleLog,
                   cancelled, checks, balanceCalls, listed>>

RetryNext ==
    \/ \E p \in DiskPayments : RetryCreate(p)
    \/ \E id \in FileIds : RetryAssociate(id)
    \/ RetryList
    \/ \E c \in Currencies : RetryCheck(c)

RetrySpec == RetryInit /\ [][RetryNext]_vars

\* C37: right after an UpdatePayment of the monitor's confirmation failed,
\* the store still holds the payment as pending and ListPendingPayments
\* returns it, so that the next cycle checks it again.
C37_FailedUpdateLeavesPending ==
    (ret.kind = "confirm" /\ ret.err) =>
        LET g == GetPayment(backend, files, ret.id) IN
          /\ ~g.err
          /\ g.payment # NoPayment
          /\ g.payment.status = StatusPending
          /\ g.payment \in ListPendingPayments(backend,
                                               Readable(backend, files))

(***************************************************************************)
(* A paywall started with both wallets on a store that also holds payments *)
(* made while only Bitcoin was enabled (NewPaywall goes on without the     *)
(* Monero wallet when it cannot be created).                               *)
(***************************************************************************)
MixedInit ==
    /\ backend \in SystemBackends
    /\ minConfirmations = 1
    /\ enabled = {Bitcoin, Monero}
    /\ \E txs \in [1..MaxBatch -> {NoTx, "tx"}],
          made \in [1..MaxBatch -> {{Bitcoin}, {Bitcoin, Monero}}] :
         store = [i \in PaymentIds |->
                    IF i <= MaxBatch THEN CreatedPayment(i, made[i], txs[i])
                    ELSE NoPayment]
    /\ ret = [kind |-> "none"]
    /\ zeroKeyAt = NoIndex
    /\ client = "wallet"
    /\ nextIndex = [c \in Currencies |-> MaxBatch]
    /\ xmrSubaddresses = nextIndex[Monero]
    /\ mu = [c \in Currencies |-> 0]
    /\ DeriversIdle
    /\ nextId = MaxBatch + 1
    /\ cpc = [k \in Callers |-> "idle"]
    /\ cpay = [k \in Callers |-> NoPayment]
    /\ ctodo = [k \in Callers |-> {}]
    /\ cbase = [k \in Callers |-> [c \in Currencies |-> 0]]
    /\ cres = [k \in Callers |-> NoResult]
    /\ now = 0
    /\ untilTick = TickerInterval
    /\ interval = TickerInterval
    /\ tickPending = TRUE
    /\ MonitorInit
    /\ DiskIdle
    /\ EdgeIdle

MixedSpec == MixedInit /\ [][FundsNext]_vars

\* C38: the check of a currency marks a payment confirmed only if the
\* payment has an address and an amount for that currency; the Monero check
\* never confirms a Bitcoin-only payment.
C38_NoConfirmationWithoutEntry ==
    [][\A c \in Currencies, id \in PaymentIds :
         MarkedConfirmed(c, id) =>
            /\ c \in DOMAIN store[id].addresses
            /\ c \in DOMAIN store[id].amounts]_vars

\* C39: a check of a payment whose transaction id is empty leaves the
\* stored payment and the monitor's own copy as they were, so it does not
\* mark it confirmed; and when the balance the client reports is sufficient
\* the check returns an error, which the cycle records.
C39_NoConfirmationWithoutTransaction ==
    [][\A c \in Currencies :
         (MonitorCheck(c) /\ Obj(Head(batch)).transactionID = NoTx) =>
            LET p == Obj(Head(batch)) IN
              /\ store' = store
              /\ c = Bitcoin =>
                    /\ batch'[1].status = p.status
                    /\ batch'[1].confirmations = p.confirmations
              /\ (c \in clients /\ client = "wallet"
                    /\ GetAddressBalance(c, p) >= AmountOf(p, c)) =>
                    IF batch' = <<>>
                    THEN cycleLog'[Len(cycleLog')].failed
                    ELSE checks'[Len(checks')].err]_vars

\* C39's case: the price was paid to the address of a payment without a
\* transaction id, its check returned the error, and it is still pending
C39_Witness ==
    /\ checks # <<>>
    /\ LET e == checks[Len(checks)] IN
         /\ e.err
         /\ e.currency = Monero
         /\ store[e.id].transactionID = NoTx
         /\ funds[Monero][e.id] >= AmountOf(store[e.id], Monero)
         /\ store[e.id].status = StatusPending
         /\ store[e.id].confirmations = 0

(***************************************************************************)
(* The Monero wallet whose GetAddress takes w.mu itself (the               *)
(* xmr_hd_wallet.go that talks to the RPC through rpcCall): goroutines     *)
(* calling its GetAddress and its DeriveNextAddress.                       *)
(***************************************************************************)
RpcWalletInit ==
    /\ backend = "memory"
    /\ minConfirmations = 1
    /\ store = [i \in StoredIds |-> NoPayment]
    /\ ret = [kind |-> "none"]
    /\ enabled = {Monero}
    /\ zeroKeyAt = NoIndex
    /\ client = "any"
    /\ WalletInit
    /\ DeriversIdle
    /\ CallersIdle
    /\ ClockInit
    /\ MonitorInit
    /\ DiskIdle
    /\ EdgeIdle

\* calls of either method begun so far
RpcCalls == Len(derived) + Cardinality({d \in Derivers : wpc[d] # "idle"})

\* GetAddress: w.mu.Lock(); defer w.mu.Unlock()
RpcGetAddressLock(d) ==
    /\ wpc[d] = "idle"
    /\ RpcCalls < MaxDerive
    /\ MutexFree(Monero)
    /\ mu' = [mu EXCEPT ![Monero] = d]
    /\ wpc' = [wpc EXCEPT ![d] = "getAddress"]
    /\ UNCHANGED <<configVars, edgeVars, diskVars, storeVars, nextIndex,
                   xmrSubaddresses, widx, derived, callerVars, timeVars,
                   monVars>>

\* GetAddress with the lock held: with no address derived yet it calls
\* DeriveNextAddress; else it asks the RPC for the last subaddress, returns
\* and the deferred Unlock runs
RpcGetAddressBody(d) ==
    /\ wpc[d] = "getAddress"
    /\ IF nextIndex[Monero] = 0
       THEN /\ wpc' = [wpc EXCEPT ![d] = "deriveCalled"]
            /\ UNCHANGED <<mu, derived>>
       ELSE \E rpcOk \in BOOLEAN :
              /\ derived' = Append(derived,
                     [by |-> d, err |-> ~rpcOk,
                      address |-> IF rpcOk
                                  THEN XMRSubaddress(nextIndex[Monero] - 1)
                                  ELSE ""])
              /\ mu' = [mu EXCEPT ![Monero] = 0]
              /\ wpc' = [wpc EXCEPT ![d] = "idle"]
    /\ UNCHANGED <<configVars, edgeVars, diskVars, storeVars, nextIndex,
                   xmrSubaddresses, widx, callerVars, timeVars, monVars>>

\* DeriveNextAddress, called by a goroutine or from GetAddress:
\* w.mu.Lock(), which waits for as long as the mutex is held, whoever holds
\* it (sync.Mutex is not reentrant)
RpcDeriveLock(d) ==
    /\ wpc[d] \in {"idle", "deriveCalled"}
    /\ wpc[d] = "idle" => RpcCalls < MaxDerive
    /\ MutexFree(Monero)
    /\ mu' = [mu EXCEPT ![Monero] = d]
    /\ wpc' = [wpc EXCEPT ![d] = "locked"]
    /\ widx' = [widx EXCEPT ![d] = nextIndex[Monero]]
    /\ UNCHANGED <<configVars, edgeVars, diskVars, storeVars, nextIndex,
                   xmrSubaddresses, derived, callerVars, timeVars, monVars>>

RpcWalletNext ==
    \/ \E d \in Derivers : RpcGetAddressLock(d)
    \/ \E d \in Derivers : RpcGetAddressBody(d)
    \/ \E d \in Derivers : RpcDeriveLock(d)
    \/ \E d \in Derivers : DeriveReturn(d, Monero)

\* every goroutine that can take a step is scheduled, and the RPC answers
RpcWalletFairness ==
    \A d \in Derivers :
        /\ WF_vars(RpcGetAddressBody(d))
        /\ WF_vars(RpcDeriveLock(d))
        /\ WF_vars(DeriveReturn(d, Monero))

RpcWalletSpec == RpcWalletInit /\ [][RpcWalletNext]_vars /\ RpcWalletFairness

\* C40: a GetAddress call that has taken the wallet's mutex returns, also
\* when no address has been derived yet.
C40_GetAddressReturns ==
    \A d \in Derivers : (wpc[d] = "getAddress") ~> (wpc[d] = "idle")

====
